---- MODULE Spec2Model ----
(***************************************************************************)
(* A model of the agent orchestration core of the repository:              *)
(*   - BaseAgent.call_llm, the resilient invocation (retry, fallback),     *)
(*   - MemoryStore, the sqlite-backed log of entries, sessions, snapshots, *)
(*   - MultiAgentWorkflow, the three-node graph and its routing,           *)
(*   - RoutingEngine, the rule-based router of workflow/router.py.         *)
(* Each part has its own specification (SpecLLM, SpecAppend, SpecStore,    *)
(* SpecCleanup, SpecWF, SpecRoute) over the same variables; each holds the *)
(* other parts still.                                                      *)
(***************************************************************************)
EXTENDS Integers, Sequences, FiniteSets, TLC

VARIABLES
    \* ---- BaseAgent (one agent object) ----
    model_name,       \* self.model_name
    llm,              \* self.llm: the model the current client was built for
    fallback_models,  \* self.fallback_models (from OPENAI_FALLBACK_MODELS)
    call,             \* the call_llm in progress: its position and locals
    calls_done,       \* number of call_llm calls finished so far
    agent_log,        \* observation: what earlier calls did to the agent
    \* ---- MemoryStore (one sqlite database file) ----
    db,               \* the committed database: the three tables
    db_lock,          \* the connection holding sqlite's write lock, if any
    tx,               \* per task: the store method in progress, its position
    clock,            \* datetime.now(), as a logical time
    appends_started,  \* number of add_memory_entry calls begun
    appended_ok,      \* observation: per session, calls that returned True
    summary_call,     \* the get_session_summary in progress
    save_call,        \* the _save_state_to_memory in progress: its store calls
    \* ---- MultiAgentWorkflow (one run_workflow call) ----
    initial_state,    \* the AgentState object the caller passed in
    state,            \* the AgentState flowing through the graph
    wf_node,          \* the node the run is at ("start", a role, "end")
    wf_stage,         \* the position inside the node
    result,           \* what run_workflow returned
    trace,            \* observation: the steps of the run, in order
    \* ---- MemoryStore, as its callers see it ----
    last_op,          \* the store method that returned last, and what it returned
    ops_done,         \* number of writing store methods called so far
    \* ---- RoutingEngine ----
    engine,           \* the RoutingEngine object, once RoutingEngine() was called
    routing           \* what _analyze_conversation_patterns returned last

llm_vars == <<model_name, llm, fallback_models, call, calls_done, agent_log>>

store_vars ==
    <<db, db_lock, tx, clock, appends_started, appended_ok, summary_call, save_call>>

wf_vars == <<initial_state, state, wf_node, wf_stage, result, trace>>

op_vars == <<last_op, ops_done>>

route_vars == <<engine, routing>>

ext_vars == <<op_vars, route_vars>>

vars == <<llm_vars, store_vars, wf_vars, ext_vars>>

----------------------------------------------------------------------------
(* Bounds of the model *)

MaxCalls == 3
MaxFallbacks == 2
MaxAppends == 3
MaxStoreFailures == 1
MaxStoreOps == 3
MaxHistory == 4

----------------------------------------------------------------------------
(* Text.  A text is a sequence of fragments; the code's substring tests    *)
(* ("timeout" in msg, "Error code: 403" in msg, ...) become tests on the   *)
(* fragments.  Lower is str.lower(): every fragment of the model that      *)
(* holds a capital letter has its line, the others are returned as they    *)
(* are.                                                                    *)

Lower(frag) ==
    CASE frag = "Connection" -> "connection"
      [] frag = "Error code: 403" -> "error code: 403"
      [] frag = "Error code: 400" -> "error code: 400"
      [] frag = "Request" -> "request"
      [] frag = "Solution_Expert" -> "solution_expert"
      [] frag = "Step" -> "step"
      [] frag = "URGENT" -> "urgent"
      [] frag = "Thanks" -> "thanks"
      [] frag = "Yes" -> "yes"
      [] frag = "Recommended Agent" -> "recommended agent"
      [] frag = "SOLUTION_EXPERT" -> "solution_expert"
      [] frag = "PROBLEM_ANALYST" -> "problem_analyst"
      [] frag = "RECEPTIONIST" -> "receptionist"
      [] frag = "High severity issue requires expert intervention"
            -> "high severity issue requires expert intervention"
      [] frag = "Low confidence requires expert review"
            -> "low confidence requires expert review"
      [] frag = "APIError" -> "apierror"
      [] frag = "RuntimeError" -> "runtimeerror"
      [] frag = "Model access forbidden." -> "model access forbidden."
      [] frag = "I was charged twice for my subscription"
            -> "i was charged twice for my subscription"
      [] frag = "[HANDOFF_TO_" -> "[handoff_to_"
      [] frag = "] Reason: " -> "] reason: "
      [] frag = "Category" -> "category"
      [] frag = "Severity" -> "severity"
      [] frag = "Keywords" -> "keywords"
      [] frag = "Sentiment" -> "sentiment"
      [] frag = "Confidence" -> "confidence"
      [] frag = "Summary" -> "summary"
      [] frag = "Steps" -> "steps"
      [] frag = "Resources" -> "resources"
      [] frag = "Welcome! How can I help you today?"
            -> "welcome! how can i help you today?"
      [] frag = "We are looking into the duplicate charge."
            -> "we are looking into the duplicate charge."
      [] frag = "We found a duplicate charge. Next "
            -> "we found a duplicate charge. next "
      [] frag = "Solution Type" -> "solution type"
      [] frag = "Estimated Time" -> "estimated time"
      [] frag = "Follow-up Required" -> "follow-up required"
      [] frag = "Risk Assessment" -> "risk assessment"
      [] frag = "Here is the " -> "here is the "
      [] frag = "Query categorized as " -> "query categorized as "
      [] frag = "Category: " -> "category: "
      [] frag = ", Severity: " -> ", severity: "
      [] frag = "None" -> "none"
      [] frag = "AGENT_ROLE" -> "agent_role"
      [] frag = "AttributeError" -> "attributeerror"
      [] frag = "Critical severity requires expert intervention"
            -> "critical severity requires expert intervention"
      [] frag = "High severity needs expert attention"
            -> "high severity needs expert attention"
      [] frag = "Medium severity needs analysis"
            -> "medium severity needs analysis"
      [] frag = "Low severity can be handled by analyst"
            -> "low severity can be handled by analyst"
      [] frag = "Escalation keywords detected"
            -> "escalation keywords detected"
      [] frag = "Resolution indicators detected"
            -> "resolution indicators detected"
      [] frag = "Technical issues require expert solutions"
            -> "technical issues require expert solutions"
      [] frag = "Billing issues need investigation"
            -> "billing issues need investigation"
      [] frag = "Account issues need analysis"
            -> "account issues need analysis"
      [] frag = "General inquiries can be handled by receptionist"
            -> "general inquiries can be handled by receptionist"
      [] frag = "Medium confidence needs analysis"
            -> "medium confidence needs analysis"
      [] frag = "High confidence allows current agent to continue"
            -> "high confidence allows current agent to continue"
      [] frag = "Continue with current processing"
            -> "continue with current processing"
      [] frag = "High" -> "high"
      [] OTHER -> frag

LowerText(text) == [i \in DOMAIN text |-> Lower(text[i])]

Contains(text, frag) == \E i \in DOMAIN text : text[i] = frag

ContainsAny(text, frags) == \E i \in DOMAIN text : text[i] \in frags

----------------------------------------------------------------------------
(* Models, prompts, replies and the errors the backend can answer with.    *)

PrimaryModel == "gpt-3.5-turbo"
ModelPool == {"fb-a", "fb-b"}

Prompts == {"prompt-1", "prompt-2"}
Replies == {"reply-x", "reply-y"}

E_TIMEOUT == <<"Request", "timed out">>
E_CONN == <<"Connection", "reset">>
E_403 == <<"Error code: 403", "not have access">>
E_403_503 == <<"Error code: 403", "request id", "503">>
E_400 == <<"Error code: 400", "bad request">>

ErrorTexts == {E_TIMEOUT, E_CONN, E_403, E_403_503, E_400}

NoError == [type |-> "none", msg |-> <<>>, at |-> 0]

\* What one ainvoke answers: a reply, or an exception with a message.
Outcomes == [ok : {TRUE}, content : Replies, msg : {<<>>}]
            \cup [ok : {FALSE}, content : {""}, msg : ErrorTexts]

\* The exception object of the n-th invocation of a call.
ApiError(msg, n) == [type |-> "APIError", msg |-> msg, at |-> n]

\* str.strip on a piece.
Strip(m) == CASE m = " fb-b " -> "fb-b"
              [] m = " " -> ""
              [] OTHER -> m

\* fallback_models_raw.split(","): at most MaxFallbacks pieces, each a model
\* name (the primary's too), a name with blanks around it, blanks or nothing.
RawFallbackLists ==
    UNION {[1..k -> ModelPool \cup {PrimaryModel, " fb-b ", " ", ""}] :
              k \in 1..MaxFallbacks}

\* [m.strip() for m in raw.split(",") if m.strip()]: every non-empty name is
\* kept, in order; a name listed twice stays twice, the primary stays.
ParseFallbackModels(pieces) ==
    LET stripped == [i \in DOMAIN pieces |-> Strip(pieces[i])]
    IN SelectSeq(stripped, LAMBDA m : m # "")

FallbackConfigs == {ParseFallbackModels(pieces) : pieces \in RawFallbackLists}

----------------------------------------------------------------------------
(* BaseAgent *)

TransientMarks ==
    {"timeout", "timed out", "connection", "connect", "temporarily",
     "502", "503", "504"}

\* "no-access-zh" stands for the Chinese marker of line 109.
ForbiddenMarks ==
    {"Error code: 403", "no-access-zh", "doesn't have access", "not have access"}

\* call_llm._is_transient_error: substring tests on str(exc).lower()
IsTransientError(exc) == ContainsAny(LowerText(exc.msg), TransientMarks)

\* BaseAgent._is_model_forbidden_error: substring tests on str(exc)
IsModelForbiddenError(exc) == ContainsAny(exc.msg, ForbiddenMarks)

\* The RuntimeError of the last branch: it names the model, the fallback
\* list, and quotes the original error.
ForbiddenRuntimeError(exc) ==
    [type |-> "RuntimeError",
     msg |-> <<"Model access forbidden.", model_name>> \o exc.msg,
     at |-> exc.at]

IdleCall ==
    [pc |-> "idle", messages |-> <<>>, e |-> NoError, last_error |-> NoError,
     idx |-> 0, invocations |-> <<>>,
     result |-> [kind |-> "none", content |-> "", error |-> NoError],
     model_at_start |-> "", after_switch |-> FALSE, failed_before |-> {}]

\* One ainvoke as the backend sees it.
Invocation(via, model, out) ==
    [via |-> via, model |-> model, messages |-> call.messages, out |-> out]

Returned(c, content) ==
    [c EXCEPT !.pc = "returned",
              !.result = [kind |-> "return", content |-> content, error |-> NoError]]

Raised(c, exc) ==
    [c EXCEPT !.pc = "raised",
              !.result = [kind |-> "raise", content |-> "", error |-> exc]]

\* Variants of RetriesFirst: a branch that never retries, and one that
\* retries whatever the error is.
RetriesFirst_Never(exc) == FALSE
RetriesFirst_Always(exc) == TRUE

\* Whether the except-branch retries the first invocation.
RetriesFirst(exc) == IsTransientError(exc)

\* Variant of ExhaustedError: the loop keeps the first error.
ExhaustedError_First(first, last) == first

\* The error the fallback loop raises once every fallback failed.
ExhaustedError(first, last) == last

\* Variant of FallbackAt: the list is walked from its end.
FallbackAt_Reversed(idx) == fallback_models[Len(fallback_models) - idx + 1]

\* The model the fallback loop tries at position idx.
FallbackAt(idx) == fallback_models[idx]

\* Variant of SwitchTo: the name is switched, the client is not.
SwitchTo_NameOnly(fallback_model) ==
    [llm |-> llm, model_name |-> fallback_model]

\* The permanent switch after a fallback answered: self.llm and
\* self.model_name are both replaced.
SwitchTo(fallback_model) ==
    [llm |-> fallback_model, model_name |-> fallback_model]

\* Variant of ErrorAfterRetry: the retry's exception takes the place of the
\* first one.
ErrorAfterRetry_Retrys(e, e_retry) == e_retry

\* The exception the except-branch goes on with after the retry failed: the
\* retry's own exception is caught and dropped (except Exception: pass), e is
\* still the first one.
ErrorAfterRetry(e, e_retry) == e

\* The rest of the except-branch, after the retry (if any) failed as well:
\* the fallback chain, the RuntimeError, or the bare raise, decided on the
\* first error e alone.
AfterRetry(c) ==
    IF IsModelForbiddenError(c.e) /\ fallback_models # <<>>
    THEN [c EXCEPT !.pc = "fallback", !.last_error = c.e, !.idx = 1]
    ELSE IF IsModelForbiddenError(c.e)
    THEN Raised(c, ForbiddenRuntimeError(c.e))
    ELSE Raised(c, c.e)

\* call_llm is entered: messages are built once.
CallLLM ==
    /\ call.pc = "idle"
    /\ calls_done < MaxCalls
    /\ \E prompt \in Prompts :
         call' = [IdleCall EXCEPT !.pc = "first",
                                  !.messages = <<"system-prompt", prompt>>,
                                  !.model_at_start = model_name,
                                  !.after_switch = (agent_log.switches > 0),
                                  !.failed_before = agent_log.failed_before_switch]
    /\ UNCHANGED <<model_name, llm, fallback_models, calls_done, agent_log>>

\* response = await self.llm.ainvoke(messages), in the try block.
FirstInvoke ==
    /\ call.pc = "first"
    /\ \E out \in Outcomes :
         LET inv == Invocation("llm", llm, out)
             c1 == [call EXCEPT !.invocations = Append(@, inv)]
             exc == ApiError(out.msg, 1)
             c2 == [c1 EXCEPT !.e = exc]
         IN /\ call' = IF out.ok THEN Returned(c1, out.content)
                       ELSE IF RetriesFirst(exc) THEN [c2 EXCEPT !.pc = "retry"]
                       ELSE AfterRetry(c2)
            /\ agent_log' = IF out.ok THEN agent_log
                            ELSE [agent_log EXCEPT !.failed = @ \cup {llm}]
    /\ UNCHANGED <<model_name, llm, fallback_models, calls_done>>

\* The one retry for a transient failure; its own error is dropped (pass).
RetryInvoke ==
    /\ call.pc = "retry"
    /\ \E out \in Outcomes :
         LET inv == Invocation("llm", llm, out)
             c1 == [call EXCEPT !.invocations = Append(@, inv)]
             c2 == [c1 EXCEPT !.e = ErrorAfterRetry(@, ApiError(out.msg, 2))]
         IN /\ call' = IF out.ok THEN Returned(c1, out.content)
                       ELSE AfterRetry(c2)
            /\ agent_log' = IF out.ok THEN agent_log
                            ELSE [agent_log EXCEPT !.failed = @ \cup {llm}]
    /\ UNCHANGED <<model_name, llm, fallback_models, calls_done>>

\* One pass of the loop over self.fallback_models.
FallbackInvoke ==
    /\ call.pc = "fallback"
    /\ \E out \in Outcomes :
         LET fallback_model == FallbackAt(call.idx)
             inv == Invocation("fallback_llm", fallback_model, out)
             n == Len(call.invocations) + 1
             c1 == [call EXCEPT !.invocations = Append(@, inv)]
             c2 == [c1 EXCEPT !.last_error = ApiError(out.msg, n),
                              !.idx = @ + 1]
         IN IF out.ok
            THEN /\ llm' = SwitchTo(fallback_model).llm
                 /\ model_name' = SwitchTo(fallback_model).model_name
                 /\ call' = Returned(c1, out.content)
                 /\ agent_log' =
                        [agent_log EXCEPT
                            !.switches = @ + 1,
                            !.switched_to = fallback_model,
                            !.failed_before_switch = agent_log.failed]
            ELSE /\ call' = IF c2.idx > Len(fallback_models)
                            THEN Raised(c2, ExhaustedError(c2.e, c2.last_error))
                            ELSE c2
                 /\ agent_log' =
                        [agent_log EXCEPT !.failed = @ \cup {fallback_model}]
                 /\ UNCHANGED <<llm, model_name>>
    /\ UNCHANGED <<fallback_models, calls_done>>

\* The caller has the text or the exception; the agent is free for the next call.
CallDone ==
    /\ call.pc \in {"returned", "raised"}
    /\ call' = IdleCall
    /\ calls_done' = calls_done + 1
    /\ UNCHANGED <<model_name, llm, fallback_models, agent_log>>

InitAgent ==
    /\ model_name = PrimaryModel
    /\ llm = PrimaryModel
    /\ fallback_models \in FallbackConfigs
    /\ call = IdleCall
    /\ calls_done = 0
    /\ agent_log = [switches |-> 0, switched_to |-> "", failed |-> {},
                    failed_before_switch |-> {}]

----------------------------------------------------------------------------
(* MemoryStore *)

Roles == {"receptionist", "problem_analyst", "solution_expert"}
SessionIds == {"s1", "s2"}
Tasks == {"t1", "t2"}
NoTask == "none"

NoSession == [present |-> FALSE, created_at |-> 0, last_updated |-> 0,
              total_messages |-> 0]

\* The schema of _init_database, empty.
EmptyDb ==
    [memory_entries |-> <<>>,
     agent_states |-> <<>>,
     sessions |-> [s \in SessionIds |-> NoSession],
     next_entry_id |-> 1,
     next_state_id |-> 1]

\* A MemoryEntry as a caller builds it.
MemoryEntry(session_id, agent_role, content, timestamp) ==
    [session_id |-> session_id, agent_role |-> agent_role,
     message_type |-> "agent_response", content |-> content,
     metadata |-> "{}", timestamp |-> timestamp, importance_score |-> 5]

NoEntry == MemoryEntry("", "", <<>>, 0)

\* The entries the store's callers append in SpecAppend: stamped with the
\* time of the call, for either session; one agent writes to the first
\* session, another to the second.
AppendInputs(now) ==
    {MemoryEntry("s1", "receptionist", <<"text">>, now),
     MemoryEntry("s2", "problem_analyst", <<"text">>, now)}

\* SELECT COUNT(*) FROM memory_entries WHERE session_id = ?
CountEntries(d, session_id) ==
    Cardinality({i \in DOMAIN d.memory_entries :
                    d.memory_entries[i].session_id = session_id})

\* The metadata values the callers use: an empty dict, and a dict holding a
\* tuple.  json.dumps writes a tuple as an array, json.loads reads an array
\* as a list.
MD_EMPTY == "{}"
MD_TUPLE == "{'tags': ('a', 'b')}"
MD_LIST == "{'tags': ['a', 'b']}"

\* The metadata of the messages of a conversation: of the user's message
\* (main._create_initial_state), of a message an agent added
\* (BaseAgent.add_message_to_history).
MD_INTERACTIVE == "{'source': 'interactive'}"
MD_AGENT_ROLE(role) ==
    CASE role = "receptionist" -> "{'agent_role': 'receptionist'}"
      [] role = "problem_analyst" -> "{'agent_role': 'problem_analyst'}"
      [] OTHER -> "{'agent_role': 'solution_expert'}"

JsonDumps(metadata) ==
    CASE metadata = MD_TUPLE -> "{\"tags\": [\"a\", \"b\"]}"
      [] metadata = MD_LIST -> "{\"tags\": [\"a\", \"b\"]}"
      [] metadata = MD_INTERACTIVE -> "{\"source\": \"interactive\"}"
      [] metadata = "{'agent_role': 'receptionist'}"
            -> "{\"agent_role\": \"receptionist\"}"
      [] metadata = "{'agent_role': 'problem_analyst'}"
            -> "{\"agent_role\": \"problem_analyst\"}"
      [] metadata = "{'agent_role': 'solution_expert'}"
            -> "{\"agent_role\": \"solution_expert\"}"
      [] OTHER -> metadata

\* Variant of JsonLoads: the stored text is handed back unparsed.
JsonLoads_Raw(text) == text

JsonLoads(text) ==
    CASE text = "{\"tags\": [\"a\", \"b\"]}" -> MD_LIST
      [] text = "{\"source\": \"interactive\"}" -> MD_INTERACTIVE
      [] text = "{\"agent_role\": \"receptionist\"}"
            -> "{'agent_role': 'receptionist'}"
      [] text = "{\"agent_role\": \"problem_analyst\"}"
            -> "{'agent_role': 'problem_analyst'}"
      [] text = "{\"agent_role\": \"solution_expert\"}"
            -> "{'agent_role': 'solution_expert'}"
      [] OTHER -> text

\* INSERT INTO memory_entries (...) VALUES (...): a new row with the next id.
InsertEntry(d, entry) ==
    [d EXCEPT !.memory_entries =
                  Append(@, [id |-> d.next_entry_id,
                             session_id |-> entry.session_id,
                             agent_role |-> entry.agent_role,
                             message_type |-> entry.message_type,
                             content |-> entry.content,
                             metadata |-> JsonDumps(entry.metadata),
                             timestamp |-> entry.timestamp,
                             importance_score |-> entry.importance_score]),
              !.next_entry_id = @ + 1]

\* The total_messages value _update_session writes.
SessionCount(d, session_id) == CountEntries(d, session_id)

\* MemoryStore._update_session: INSERT OR REPLACE INTO sessions, keeping the
\* created_at of an existing row.
UpdateSession(d, session_id, now) ==
    [d EXCEPT !.sessions[session_id] =
        [present |-> TRUE,
         created_at |-> IF @.present THEN @.created_at ELSE now,
         last_updated |-> now,
         total_messages |-> SessionCount(d, session_id)]]

\* Variant of VisibleAfterStatement: every statement is committed as it runs.
VisibleAfterStatement_Autocommit(committed, work) == work

\* What other connections see after a statement of an open transaction ran:
\* the committed database, unchanged until db.commit().
VisibleAfterStatement(committed, work) == committed

\* The first SELECT of get_session_summary: the row of the sessions table,
\* or None (a row that is not present).
SelectSession(d, session_id) == d.sessions[session_id]

\* The second SELECT: agent_role, COUNT(*) ... GROUP BY agent_role, as pairs.
SelectAgentStats(d, session_id) ==
    {<<r, Cardinality({i \in DOMAIN d.memory_entries :
                          /\ d.memory_entries[i].session_id = session_id
                          /\ d.memory_entries[i].agent_role = r})>> :
        r \in {d.memory_entries[i].agent_role :
                  i \in {j \in DOMAIN d.memory_entries :
                            d.memory_entries[j].session_id = session_id}}}

\* The {} of the except branch: a summary without a key (the session_id of a
\* summary is never "").
NoSummary ==
    [session_id |-> "", created_at |-> 0, last_updated |-> 0, total_messages |-> 0,
     agent_stats |-> {}, recent_messages |-> <<>>]

\* The dictionary get_session_summary builds from what its three SELECTs
\* returned; created_at and last_updated 0 stand for None.
Summary(session_id, session_row, agent_rows, recent_rows) ==
    [session_id |-> session_id,
     created_at |-> IF session_row.present THEN session_row.created_at ELSE 0,
     last_updated |-> IF session_row.present THEN session_row.last_updated ELSE 0,
     total_messages |-> IF session_row.present THEN session_row.total_messages ELSE 0,
     agent_stats |-> agent_rows,
     recent_messages |-> recent_rows]

\* The one get_session_summary call that runs beside the other callers: its
\* position, its argument, what its SELECTs returned so far, whether the
\* cursor of its last SELECT still has rows to fetch, what it returned.
\* When the first SELECT ran, ok_at_select appends of the session had
\* returned True and unreturned_at_select had committed without having
\* returned yet.
IdleSummary ==
    [pc |-> "idle", session_id |-> "", session_row |-> NoSession,
     agent_rows |-> {}, ok_at_select |-> 0, unreturned_at_select |-> 0,
     cursor_open |-> FALSE, summary |-> NoSummary]

\* No _save_state_to_memory is running: the next one starts with the first
\* message of the history; failures counts the store calls of the run that
\* did not work.
NoSave == [idx |-> 1, info |-> "ok", failures |-> 0]

NoRole == ""

\* What a caller of the store sees of a call: the method, its arguments and
\* what it returned.
NoOp == [op |-> "none", session_id |-> "", agent_role |-> NoRole,
         entry |-> NoEntry, limit |-> 0, state_data |-> <<>>,
         ok |-> TRUE, error |-> "", deleted_count |-> 0,
         entries |-> <<>>, state |-> <<>>, summary |-> NoSummary]

\* A task that is not inside a method of the store.  Inside one: the
\* position, the call, the cutoff_date cleanup_old_memories computed, the
\* datetime.now() save_agent_state evaluated, and the database as the call's
\* open transaction has it.
IdleTx == [pc |-> "idle", call |-> NoOp, cutoff_date |-> 0, now |-> 0,
           work |-> EmptyDb]

InitStore ==
    /\ db = EmptyDb
    /\ db_lock = NoTask
    /\ tx = [t \in Tasks |-> IdleTx]
    /\ clock = 0
    /\ appends_started = 0
    /\ appended_ok = [s \in SessionIds |-> 0]
    /\ summary_call = IdleSummary
    /\ save_call = NoSave

----------------------------------------------------------------------------
(* AgentState and the three agents *)

NoAnalysis ==
    [present |-> FALSE, category |-> <<>>, severity |-> <<>>, confidence_score |-> 0,
     recommended_agent |-> "", by |-> ""]
NoSolution == [present |-> FALSE, by |-> "", follow_up_required |-> FALSE]
NoMetadata ==
    [error |-> <<>>, receptionist_notes |-> FALSE, solution_validation |-> FALSE,
     follow_up_plan |-> ""]

\* main.CustomerServiceSystem._create_initial_state
Q_CHARGED == <<"I was charged twice for my subscription">>

CreateInitialState(query) ==
    [customer_query |-> [present |-> TRUE, original_message |-> query],
     analysis_result |-> NoAnalysis,
     solution |-> NoSolution,
     conversation_history |->
        <<[type |-> "user_query", sender |-> "user", content |-> query,
           metadata |-> MD_INTERACTIVE]>>,
     current_agent |-> "",
     handoff_reason |-> <<>>,
     metadata |-> NoMetadata]

\* main.CustomerServiceSystem._extract_agent_path: the senders of the
\* history other than "user", each once, in the order they first occur.
RECURSIVE ExtractAgentPath(_)
ExtractAgentPath(history) ==
    IF history = <<>> THEN <<>>
    ELSE LET agents == ExtractAgentPath(SubSeq(history, 1, Len(history) - 1))
             sender == history[Len(history)].sender
         IN IF sender # "user" /\ \A i \in DOMAIN agents : agents[i] # sender
            THEN Append(agents, sender)
            ELSE agents

\* Variant of AddMessageToHistory: the message is put in front of the list.
AddMessageToHistory_Prepend(role, st, content, message_type, sender) ==
    [st EXCEPT !.conversation_history =
        <<[type |-> message_type, sender |-> sender, content |-> content,
           metadata |-> MD_AGENT_ROLE(role)]>> \o @]

\* BaseAgent.add_message_to_history of the agent with the given role: the
\* message carries the role of the agent that adds it as its metadata,
\* whoever its sender is.
AddMessageToHistory(role, st, content, message_type, sender) ==
    [st EXCEPT !.conversation_history =
        Append(@, [type |-> message_type, sender |-> sender, content |-> content,
                   metadata |-> MD_AGENT_ROLE(role)])]

\* BaseAgent.create_handoff_message
CreateHandoffMessage(target_agent, reason) ==
    <<"[HANDOFF_TO_",
      CASE target_agent = "solution_expert" -> "SOLUTION_EXPERT"
        [] target_agent = "problem_analyst" -> "PROBLEM_ANALYST"
        [] OTHER -> "RECEPTIONIST",
      "] Reason: ">> \o reason

\* The text a model returned, as its lines: "<label>: <value>" each, the
\* value a text that is not empty.  A line the model left out is not in the
\* sequence.
Line(label, value) == [label |-> label, value |-> value]
OptLine(label, value) == IF value = "" THEN <<>> ELSE <<Line(label, <<value>>)>>

\* The labels that match \w+: at the start of a line, which is where the
\* pattern of _extract_field stops a value: one word and the colon.  A label
\* of two words ("Recommended Agent", "Risk Assessment", "Estimated Time",
\* "Solution Type", "Follow-up Required") does not stop it.
OneWordLabels ==
    {"Category", "Severity", "Keywords", "Sentiment", "Confidence", "Summary",
     "Steps", "Resources"}

\* The whole response, as one text.
RECURSIVE ResponseText(_)
ResponseText(response) ==
    IF response = <<>> THEN <<>>
    ELSE <<Head(response).label, ": ">> \o Head(response).value \o <<"\n">>
            \o ResponseText(Tail(response))

\* What (.+?)(?=\n\w+:|$) takes after the value of line i - 1: the lines from
\* j on, up to the next line with a one-word label or the end of the text.
RECURSIVE FieldTail(_, _)
FieldTail(response, j) ==
    IF j > Len(response) \/ response[j].label \in OneWordLabels THEN <<>>
    ELSE <<"\n", response[j].label, ": ">> \o response[j].value
            \o FieldTail(response, j + 1)

\* _extract_field(text, field_name, default): the text after the first
\* "<field_name>:" (whatever its case) up to the next line that begins with
\* a one-word label, or the default when the response has no such line.
ExtractField(response, field_name, default) ==
    LET hits == {i \in DOMAIN response : Lower(response[i].label) = Lower(field_name)}
        first == CHOOSE i \in hits : \A j \in hits : i <= j
    IN IF hits = {} THEN default
       ELSE response[first].value \o FieldTail(response, first + 1)

\* The first number r'(\d+\.?\d*)' finds in a fragment once '**' is
\* removed, in tenths; -1 when it holds no digit.
NumberIn(frag) ==
    CASE frag = "0.6" -> 6
      [] frag = "0.8" -> 8
      [] frag = "0.9" -> 9
      [] frag = "**0.9**" -> 9
      [] frag = "0.7" -> 7
      [] frag = "2 days" -> 20
      [] OTHER -> 0 - 1

\* BaseAgent._safe_float: the first number in the text, in tenths; the
\* default when the text holds no number.
SafeFloat(value_str, default) ==
    LET hits == {i \in DOMAIN value_str : NumberIn(value_str[i]) >= 0}
        first == CHOOSE i \in hits : \A j \in hits : i <= j
    IN IF hits = {} THEN default ELSE NumberIn(value_str[first])

\* What call_llm gives an agent: a reply, or the exception it raised.
LLMRaises == {E_TIMEOUT, E_400}

\* Which of the n calls to call_llm an agent makes raises (0: none), and what.
LLMFailures(n) ==
    {[fail_at |-> 0, error |-> <<>>]} \cup [fail_at : 1..n, error : LLMRaises]

\* Replies to ReceptionistAgent._analyze_query.
C_BILLING == <<"billing">>

S_PLAIN == <<"a duplicate charge">>

\* What the model wrote on each line; "" is a line it left out.  The
\* receptionist is recommended with the plain category only.
ReceptionistReplies ==
    {reply \in [category : {C_BILLING,
                            <<"technical, for the ", "Solution_Expert">>,
                            <<"general, for the ", "problem_analyst">>},
                severity : {"medium"},
                confidence : {"0.8"},
                recommended_agent : {"", "problem_analyst", "solution_expert",
                                     "receptionist"}] :
        reply.recommended_agent = "receptionist" => reply.category = C_BILLING}

ReceptionistResponse(reply) ==
    <<Line("Category", reply.category), Line("Severity", <<reply.severity>>),
      Line("Keywords", <<"[charge, refund]">>), Line("Sentiment", <<"negative">>)>>
        \o OptLine("Confidence", reply.confidence)
        \o <<Line("Summary", S_PLAIN)>>
        \o OptLine("Recommended Agent", reply.recommended_agent)

\* Replies to ReceptionistAgent._generate_welcome_message.
WelcomeMessages == {<<"Welcome! How can I help you today?">>}

\* Replies to ProblemAnalystAgent._create_detailed_analysis: a low and a
\* high confidence with the severity low, one confidence with the others;
\* the variants of the summary and of the recommended agent with the
\* severity medium.
AnalystReplies ==
    {reply \in [category : {C_BILLING},
                severity : {"low", "medium", "high", "critical"},
                confidence : {"0.6", "0.8", "**0.9**"},
                summary : {S_PLAIN,
                           <<"a duplicate charge; no need for the ",
                             "solution_expert">>},
                recommended_agent : {"problem_analyst", "solution_expert"}] :
        /\ \/ reply.severity = "low" /\ reply.confidence \in {"0.6", "**0.9**"}
           \/ reply.severity = "medium" /\ reply.confidence = "0.8"
           \/ reply.severity \in {"high", "critical"} /\ reply.confidence = "**0.9**"
        /\ reply.severity # "medium"
              => reply.summary = S_PLAIN /\ reply.recommended_agent = "problem_analyst"}

AnalystResponse(reply) ==
    <<Line("Category", reply.category), Line("Severity", <<reply.severity>>),
      Line("Keywords", <<"[charge, refund]">>)>>
        \o OptLine("Confidence", reply.confidence)
        \o <<Line("Summary", reply.summary)>>
        \o OptLine("Recommended Agent", reply.recommended_agent)

\* Replies to ProblemAnalystAgent._generate_analysis_message.
AnalysisMessages ==
    {<<"We are looking into the duplicate charge.">>,
     <<"We found a duplicate charge. Next ", "Step", "s: we will refund it.">>}

\* Replies to SolutionExpertAgent._develop_comprehensive_solution.
ExpertReplies ==
    [follow_up_required : {"Yes", "no", ""},
     risk_assessment : {<<"low">>,
                        <<"the first refund was issued ", "yes", "terday">>}]

ExpertResponse(reply) ==
    <<Line("Solution Type", <<"refund">>),
      Line("Steps", <<"1. check the charges 2. refund the second one">>),
      Line("Resources", <<"[billing portal]">>),
      Line("Confidence", <<"0.8">>),
      Line("Estimated Time", <<"2 days">>)>>
        \o OptLine("Follow-up Required", reply.follow_up_required)
        \o <<Line("Risk Assessment", reply.risk_assessment)>>

M_SOLUTION == <<"Here is the ", "solution", " to the duplicate charge.">>

\* ReceptionistAgent._analyze_query: the reply parsed into an AnalysisResult.
ReceptionistAnalysis(response) ==
    LET recommended_agent_str ==
            ExtractField(response, "Recommended Agent", <<"problem_analyst">>)
    IN [present |-> TRUE,
        category |-> ExtractField(response, "Category", <<>>),
        severity |-> ExtractField(response, "Severity", <<>>),
        confidence_score |->
            SafeFloat(ExtractField(response, "Confidence", <<"0.8">>), 8),
        recommended_agent |->
            IF \E r \in Roles : recommended_agent_str = <<r>>
            THEN recommended_agent_str[1]
            ELSE "problem_analyst",
        by |-> "receptionist"]

\* ReceptionistAgent.process.  The calls to call_llm, in order: for a state
\* without a customer_query the welcome message and, when the history then
\* holds more than one message, the summary of the message before it, which
\* becomes the customer_query; for a state with a customer_query the
\* analysis.  in.fail_at is the call that raised (0: none).
ReceptionistProcess(st, in) ==
    LET s0 == [st EXCEPT !.current_agent = "receptionist"]
        no_query == ~st.customer_query.present
        w1 == AddMessageToHistory("receptionist", s0, in.welcome,
                                  "agent_response", "receptionist")
        asks_query == Len(w1.conversation_history) > 1
        user_message ==
            w1.conversation_history[Len(w1.conversation_history) - 1].content
        w2 == [w1 EXCEPT !.customer_query =
                  [present |-> TRUE, original_message |-> user_message]]
        q == IF ~no_query THEN s0 ELSE IF asks_query THEN w2 ELSE w1
        calls_before == IF ~no_query THEN 0 ELSE IF asks_query THEN 2 ELSE 1
        analysis == ReceptionistAnalysis(ReceptionistResponse(in.reply))
        s1 == [q EXCEPT !.analysis_result = analysis,
                        !.metadata.receptionist_notes = TRUE]
        s2 == AddMessageToHistory(
                  "receptionist", s1,
                  CreateHandoffMessage(
                      analysis.recommended_agent,
                      <<"Query categorized as ">> \o analysis.category
                          \o <<" with ">> \o analysis.severity \o <<" severity">>),
                  "handoff", analysis.recommended_agent)
        s3 == [s2 EXCEPT !.handoff_reason =
                  <<"Category: ">> \o analysis.category
                      \o <<", Severity: ">> \o analysis.severity]
    IN IF no_query /\ in.fail_at = 1 THEN [state |-> s0, raised |-> in.error]
       ELSE IF no_query /\ asks_query /\ in.fail_at = 2
       THEN [state |-> w1, raised |-> in.error]
       ELSE IF ~q.customer_query.present THEN [state |-> q, raised |-> <<>>]
       ELSE IF in.fail_at = calls_before + 1 THEN [state |-> q, raised |-> in.error]
       ELSE [state |-> s3, raised |-> <<>>]

\* ProblemAnalystAgent._create_detailed_analysis: the reply parsed.
\* The recommended agent is not read from its line: it is the solution
\* expert when "solution_expert" occurs anywhere in the response, in any case.
AnalystAnalysis(response) ==
    [present |-> TRUE,
     category |-> ExtractField(response, "Category", <<>>),
     severity |-> ExtractField(response, "Severity", <<>>),
     confidence_score |->
         SafeFloat(ExtractField(response, "Confidence", <<"0.8">>), 8),
     recommended_agent |->
         IF Contains(LowerText(ResponseText(response)), "solution_expert")
         THEN "solution_expert"
         ELSE "problem_analyst",
     by |-> "problem_analyst"]

HighSeverityReason == <<"High severity issue requires expert intervention">>
LowConfidenceReason == <<"Low confidence requires expert review">>

\* Variant of DetermineHandoff: the severity of the analysis is not looked
\* at, only its confidence.
DetermineHandoff_ConfidenceOnly(analysis) ==
    IF analysis.confidence_score < 7
    THEN [should_handoff |-> TRUE, target_agent |-> "solution_expert",
          reason |-> LowConfidenceReason]
    ELSE [should_handoff |-> FALSE, target_agent |-> "", reason |-> <<>>]

\* ProblemAnalystAgent._determine_handoff
DetermineHandoff(analysis) ==
    IF analysis.severity \in {<<"high">>, <<"critical">>}
    THEN [should_handoff |-> TRUE, target_agent |-> "solution_expert",
          reason |-> HighSeverityReason]
    ELSE IF analysis.confidence_score < 7
    THEN [should_handoff |-> TRUE, target_agent |-> "solution_expert",
          reason |-> LowConfidenceReason]
    ELSE [should_handoff |-> FALSE, target_agent |-> "", reason |-> <<>>]

\* ProblemAnalystAgent._provide_initial_solution: whether it asks the model
\* for a solution at all.
ProvidesInitialSolution(analysis) ==
    analysis.severity = <<"low">> /\ analysis.confidence_score > 8

\* ProblemAnalystAgent.process.  in holds what the calls to call_llm gave, in
\* order: the analysis, the analysis message, the initial solution;
\* in.fail_at is the call that raised (0: none).
ProblemAnalystProcess(st, in) ==
    LET s0 == [st EXCEPT !.current_agent = "problem_analyst"]
        analysis == AnalystAnalysis(AnalystResponse(in.reply))
        s1 == [s0 EXCEPT !.analysis_result = analysis]
        s2 == AddMessageToHistory("problem_analyst", s1, in.message,
                                  "agent_response", "problem_analyst")
        h == DetermineHandoff(analysis)
        s3 == [AddMessageToHistory("problem_analyst", s2,
                                   CreateHandoffMessage(h.target_agent, h.reason),
                                   "handoff", h.target_agent)
                  EXCEPT !.handoff_reason = h.reason]
        s4 == [s2 EXCEPT !.solution =
                  [present |-> TRUE, by |-> "problem_analyst",
                   follow_up_required |-> FALSE]]
    IN IF ~st.customer_query.present THEN [state |-> s0, raised |-> <<>>]
       ELSE IF in.fail_at = 1 THEN [state |-> s0, raised |-> in.error]
       ELSE IF in.fail_at = 2 THEN [state |-> s1, raised |-> in.error]
       ELSE IF h.should_handoff /\ h.target_agent # ""
       THEN [state |-> s3, raised |-> <<>>]
       ELSE IF ~ProvidesInitialSolution(analysis) THEN [state |-> s2, raised |-> <<>>]
       ELSE IF in.fail_at = 3 THEN [state |-> s2, raised |-> in.error]
       ELSE [state |-> s4, raised |-> <<>>]

\* SolutionExpertAgent.process.  The calls to call_llm, in order: the
\* solution, its validation, the solution message, the follow-up plan (made
\* only when the solution asks for a follow-up).  A follow-up is asked for
\* when "yes" occurs, in any case, in what _extract_field takes for
\* "Follow-up Required": that line and the "Risk Assessment" line after it.
SolutionExpertProcess(st, in) ==
    LET s0 == [st EXCEPT !.current_agent = "solution_expert"]
        follow_up ==
            Contains(LowerText(ExtractField(ExpertResponse(in.reply),
                                            "Follow-up Required", <<"no">>)),
                     "yes")
        s1 == [s0 EXCEPT !.solution =
                  [present |-> TRUE, by |-> "solution_expert",
                   follow_up_required |-> follow_up]]
        s2 == [s1 EXCEPT !.metadata.solution_validation = TRUE]
        s3 == AddMessageToHistory("solution_expert", s2, M_SOLUTION,
                                  "agent_response", "solution_expert")
        s4 == [s3 EXCEPT !.metadata.follow_up_plan =
                  IF follow_up THEN "required" ELSE "not required"]
    IN IF ~(st.customer_query.present /\ st.analysis_result.present)
       THEN [state |-> s0, raised |-> <<>>]
       ELSE IF in.fail_at = 1 THEN [state |-> s0, raised |-> in.error]
       ELSE IF in.fail_at = 2 THEN [state |-> s1, raised |-> in.error]
       ELSE IF in.fail_at = 3 THEN [state |-> s2, raised |-> in.error]
       ELSE IF follow_up /\ in.fail_at = 4 THEN [state |-> s3, raised |-> in.error]
       ELSE [state |-> s4, raised |-> <<>>]

----------------------------------------------------------------------------
(* MultiAgentWorkflow: the graph, its nodes and its routing functions *)

\* MultiAgentWorkflow.session_id
WorkflowSession == "s1"

\* What one store call of _save_state_to_memory can come to: it works; the
\* statement fails inside the store (add_memory_entry and save_agent_state
\* catch the exception and return False; nothing of the call is written);
\* an exception is raised in the body of _save_state_to_memory itself, as
\* the call's argument is built, which ends the function with nothing more
\* written.
E_STORE == <<"database is locked">>
SaveOutcomes == {"ok", "store_fails", "raises"}

\* One add_memory_entry with no other task at the store: insert, update the
\* session, commit.
AddMemoryEntryAlone(d, entry, now) ==
    UpdateSession(InsertEntry(d, entry), entry.session_id, now)

\* Variant of MessageEntry: the entry is tagged with the state's
\* current_agent, not with the role of the node that persists.
MessageEntry_ByCurrentAgent(st, message, agent_role, now) ==
    [MemoryEntry(WorkflowSession, st.current_agent, message.content, now)
        EXCEPT !.message_type = message.type,
               !.metadata = message.metadata]

\* The MemoryEntry the loop of _save_state_to_memory builds for a message of
\* the history: the node's role, the message's type, content and metadata
\* (message.metadata or {}: an empty dictionary stays one), the time it is
\* built.
MessageEntry(st, message, agent_role, now) ==
    [MemoryEntry(WorkflowSession, agent_role, message.content, now)
        EXCEPT !.message_type = message.type,
               !.metadata = message.metadata]

\* The state_data dictionary of _save_state_to_memory.
StateData(st) ==
    [customer_query |-> st.customer_query,
     analysis_result |-> st.analysis_result,
     solution |-> st.solution,
     current_agent |-> st.current_agent,
     handoff_reason |-> st.handoff_reason,
     metadata |-> st.metadata]

\* MemoryStore.save_agent_state: INSERT OR REPLACE INTO agent_states.  The
\* table's only key is its AUTOINCREMENT id, which the statement does not
\* give, so no row is ever replaced.
SaveAgentState(d, session_id, agent_role, state_data, now) ==
    [d EXCEPT !.agent_states =
                  Append(@, [id |-> d.next_state_id,
                             session_id |-> session_id,
                             agent_role |-> agent_role,
                             state_data |-> state_data,
                             timestamp |-> now]),
              !.next_state_id = @ + 1]

\* The idx-th store call of _save_state_to_memory as a function of the
\* store: add_memory_entry for the idx-th message of the history, in a
\* transaction of its own, and after the last message save_agent_state.  A
\* call that does not work writes nothing; what the calls before it wrote
\* stays.
SaveCall(d, st, agent_role, idx, now, outcome) ==
    IF outcome # "ok" THEN d
    ELSE IF idx <= Len(st.conversation_history)
    THEN AddMemoryEntryAlone(
             d, MessageEntry(st, st.conversation_history[idx], agent_role, now), now)
    ELSE SaveAgentState(d, WorkflowSession, agent_role, StateData(st), now)

\* Variant of RouteFromReceptionist: the "end" edge of the receptionist is taken.
RouteFromReceptionist_End(st) == "end"

\* MultiAgentWorkflow._route_from_receptionist
RouteFromReceptionist(st) ==
    IF st.handoff_reason # <<>>
          /\ Contains(LowerText(st.handoff_reason), "solution_expert")
    THEN "solution_expert"
    ELSE IF st.handoff_reason # <<>>
          /\ Contains(LowerText(st.handoff_reason), "problem_analyst")
    THEN "problem_analyst"
    ELSE IF st.analysis_result.present
          /\ st.analysis_result.recommended_agent = "solution_expert"
    THEN "solution_expert"
    ELSE "problem_analyst"

ResolutionKeywords == {"step", "solution", "resolve", "fix"}

\* Variant of RouteFromProblemAnalyst: the analysis node always leads to the
\* solution expert.
RouteFromProblemAnalyst_ToExpert(st) == "solution_expert"

\* MultiAgentWorkflow._route_from_problem_analyst
RouteFromProblemAnalyst(st) ==
    LET last_message == st.conversation_history[Len(st.conversation_history)]
    IN IF st.handoff_reason # <<>>
             /\ Contains(LowerText(st.handoff_reason), "solution_expert")
       THEN "solution_expert"
       ELSE IF st.solution.present THEN "end"
       ELSE IF st.conversation_history # <<>>
             /\ last_message.sender = "problem_analyst"
             /\ ContainsAny(LowerText(last_message.content), ResolutionKeywords)
       THEN "end"
       ELSE "solution_expert"

\* Variant of WorkflowError: the handler returns the state without the error.
WorkflowError_Dropped(initial, e) == initial

\* The except branch of run_workflow: the caller's state, with the text of
\* the exception under metadata["error"].
WorkflowError(initial, e) == [initial EXCEPT !.metadata.error = e]

NoReturn == [returned |-> FALSE, state |-> CreateInitialState(<<>>)]
Event(step, node, info) == [step |-> step, node |-> node, info |-> info]

\* run_workflow is called: the graph starts at its entry point.
RunWorkflow ==
    /\ wf_node = "start"
    /\ wf_node' = "receptionist"
    /\ wf_stage' = "persist_in"
    /\ state' = initial_state
    /\ UNCHANGED <<initial_state, result, trace, store_vars>>

\* Variant of AfterPersist: the node returns after its first persist.
AfterPersist_NoProcess(stage, mode) == "route"

\* Variant of AfterPersist: a failure of the store ends the node.
AfterPersist_Abort(stage, mode) ==
    IF mode # "ok" THEN "route"
    ELSE IF stage = "persist_in" THEN "process" ELSE "route"

\* Where a node function goes on after _save_state_to_memory: to the agent
\* after the first call, to the node's return after the second, whatever
\* happened to the store: _save_state_to_memory catches every Exception.
AfterPersist(stage, mode) ==
    IF stage = "persist_in" THEN "process" ELSE "route"

\* The store calls of the run so far that did not work.
StoreFailures == save_call.failures

\* What a _save_state_to_memory comes to once it returned: "ok" when every
\* store call worked, "failed" when one returned False or its body raised
\* (the caller gets None either way).
SaveInfo(info, outcome) == IF outcome = "ok" THEN info ELSE "failed"

\* _save_state_to_memory returns (after save_agent_state, or from its except
\* branch): the node function goes on.
SaveReturns(info) ==
    /\ trace' = Append(trace, Event("persist", wf_node, info))
    /\ wf_stage' = AfterPersist(wf_stage, info)

\* One pass of the loop of _save_state_to_memory, called by a node function
\* before or after its agent: a MemoryEntry is built and
\* await self.memory_store.add_memory_entry(memory_entry) runs.
SaveMessageStep ==
    /\ wf_node \in Roles
    /\ wf_stage \in {"persist_in", "persist_out"}
    /\ save_call.idx <= Len(state.conversation_history)
    /\ \E outcome \in SaveOutcomes :
          /\ outcome = "ok" \/ StoreFailures < MaxStoreFailures
          /\ db' = SaveCall(db, state, wf_node, save_call.idx, clock + 1, outcome)
          /\ appended_ok' =
                IF outcome = "ok"
                THEN [appended_ok EXCEPT ![WorkflowSession] = @ + 1]
                ELSE appended_ok
          /\ IF outcome = "raises"
             THEN /\ SaveReturns(SaveInfo(save_call.info, outcome))
                  /\ save_call' = [NoSave EXCEPT !.failures = save_call.failures + 1]
             ELSE /\ save_call' =
                        [idx |-> save_call.idx + 1,
                         info |-> SaveInfo(save_call.info, outcome),
                         failures |-> save_call.failures
                                         + (IF outcome = "ok" THEN 0 ELSE 1)]
                  /\ UNCHANGED <<trace, wf_stage>>
    /\ clock' = clock + 1
    /\ UNCHANGED <<initial_state, state, wf_node, result, db_lock, tx,
                   appends_started, summary_call>>

\* After the loop: state_data is built and
\* await self.memory_store.save_agent_state(...) runs; the function returns.
SaveStateStep ==
    /\ wf_node \in Roles
    /\ wf_stage \in {"persist_in", "persist_out"}
    /\ save_call.idx = Len(state.conversation_history) + 1
    /\ \E outcome \in SaveOutcomes :
          /\ outcome = "ok" \/ StoreFailures < MaxStoreFailures
          /\ db' = SaveCall(db, state, wf_node, save_call.idx, clock + 1, outcome)
          /\ SaveReturns(SaveInfo(save_call.info, outcome))
          /\ save_call' =
                [NoSave EXCEPT !.failures = save_call.failures
                                               + (IF outcome = "ok" THEN 0 ELSE 1)]
    /\ clock' = clock + 1
    /\ UNCHANGED <<initial_state, state, wf_node, result, db_lock, tx,
                   appends_started, appended_ok, summary_call>>

\* What follows agent.process(state) in a node: it returned the updated
\* state, or it raised and run_workflow's handler writes the error into the
\* caller's own state object and returns that object.
AfterProcess(out) ==
    /\ state' = out.state
    /\ trace' = Append(trace, Event("process", wf_node, out.raised))
    /\ IF out.raised = <<>>
       THEN /\ wf_stage' = "persist_out"
            /\ UNCHANGED <<wf_node, result>>
            /\ UNCHANGED initial_state
       ELSE /\ wf_node' = "end"
            /\ wf_stage' = "done"
            /\ initial_state' = WorkflowError(initial_state, out.raised)
            /\ result' = [returned |-> TRUE, state |-> initial_state']
    /\ UNCHANGED store_vars

ReceptionistNode ==
    /\ wf_node = "receptionist" /\ wf_stage = "process"
    /\ \E reply \in ReceptionistReplies, welcome \in WelcomeMessages,
          f \in LLMFailures(3) :
          AfterProcess(ReceptionistProcess(
              state, [reply |-> reply, welcome |-> welcome,
                      fail_at |-> f.fail_at, error |-> f.error]))

ProblemAnalystNode ==
    /\ wf_node = "problem_analyst" /\ wf_stage = "process"
    /\ \E reply \in AnalystReplies, message \in AnalysisMessages,
          f \in LLMFailures(3) :
          AfterProcess(ProblemAnalystProcess(
              state, [reply |-> reply, message |-> message,
                      fail_at |-> f.fail_at, error |-> f.error]))

SolutionExpertNode ==
    /\ wf_node = "solution_expert" /\ wf_stage = "process"
    /\ \E reply \in ExpertReplies, f \in LLMFailures(4) :
          AfterProcess(SolutionExpertProcess(
              state, [reply |-> reply, fail_at |-> f.fail_at, error |-> f.error]))

\* The graph follows an edge: to another node, or to END, where ainvoke
\* returns the state and run_workflow returns it.
FollowEdge(target) ==
    /\ trace' = Append(trace, Event("route", wf_node, target))
    /\ IF target = "end"
       THEN /\ wf_node' = "end"
            /\ wf_stage' = "done"
            /\ result' = [returned |-> TRUE, state |-> state]
       ELSE /\ wf_node' = target
            /\ wf_stage' = "persist_in"
            /\ UNCHANGED result
    /\ UNCHANGED <<initial_state, state, store_vars>>

ReceptionistEdge ==
    /\ wf_node = "receptionist" /\ wf_stage = "route"
    /\ FollowEdge(RouteFromReceptionist(state))

ProblemAnalystEdge ==
    /\ wf_node = "problem_analyst" /\ wf_stage = "route"
    /\ FollowEdge(RouteFromProblemAnalyst(state))

\* workflow.add_edge("solution_expert", END)
SolutionExpertEdge ==
    /\ wf_node = "solution_expert" /\ wf_stage = "route"
    /\ FollowEdge("end")

\* The workflow before run_workflow is called.
InitWorkflow ==
    /\ initial_state = CreateInitialState(Q_CHARGED)
    /\ state = initial_state
    /\ wf_node = "start"
    /\ wf_stage = "idle"
    /\ result = NoReturn
    /\ trace = <<>>

----------------------------------------------------------------------------
(* MemoryStore and its callers.  Every method opens a connection of its    *)
(* own and awaits each statement, so a call is a sequence of steps, and    *)
(* the calls of two tasks interleave statement by statement.  sqlite locks *)
(* the whole file: one connection at a time holds the write lock (from its *)
(* first writing statement to its commit), a SELECT whose rows are not     *)
(* fetched yet holds a shared lock, a commit waits for the shared locks,   *)
(* and a SELECT waits for a commit that is waiting.  A statement that      *)
(* waits longer than the busy timeout raises "database is locked", which   *)
(* every method answers from its except branch.  A method returns after    *)
(* its connection is closed (the end of its async with block), which is a  *)
(* step of its own: a call that has committed has not returned yet.        *)

\* Defaults of get_memory_entries and the LIMIT of the summary's recent
\* messages.
DefaultLimit == 50
RecentLimit == 5

Min(a, b) == IF a < b THEN a ELSE b

\* The entries the callers append as their n-th call: entry.timestamp is the
\* caller's (an earlier or a later one for the first session), the content
\* tells the appends apart; one entry carries a negative importance, one a
\* tuple in its metadata.
StoreEntries(n) ==
    {MemoryEntry("s1", "receptionist", <<"message no.", n>>, 2),
     MemoryEntry("s2", "receptionist", <<"message no.", n>>, 1),
     [MemoryEntry("s1", "problem_analyst", <<"message no.", n>>, 1)
         EXCEPT !.importance_score = 0 - 1],
     [MemoryEntry("s1", "problem_analyst", <<"message no.", n>>, 1)
         EXCEPT !.metadata = MD_TUPLE]}

\* The rows of a SELECT ... ORDER BY timestamp DESC, in every order the
\* statement allows: rows of equal timestamp may come in either order.
RECURSIVE OrderByTimestampDesc(_)
OrderByTimestampDesc(rows) ==
    IF rows = <<>> THEN {<<>>}
    ELSE LET r == rows[Len(rows)]
             rest == OrderByTimestampDesc(SubSeq(rows, 1, Len(rows) - 1))
         IN UNION {
              {SubSeq(q, 1, k) \o <<r>> \o SubSeq(q, k + 1, Len(q)) :
                  k \in {j \in 0..Len(q) :
                            /\ \A i \in 1..j : q[i].timestamp >= r.timestamp
                            /\ \A i \in (j + 1)..Len(q) : q[i].timestamp <= r.timestamp}} :
              q \in rest}

\* MemoryStore.get_memory_entries: the rows of the session with at least the
\* importance asked for (and of the role, if one is given), newest timestamp
\* first, at most limit of them, each built back into a MemoryEntry.  The
\* value is the set of lists a call may return.
GetMemoryEntries(d, session_id, agent_role, limit, min_importance) ==
    LET rows == SelectSeq(d.memory_entries,
                    LAMBDA r : /\ r.session_id = session_id
                               /\ r.importance_score >= min_importance
                               /\ (agent_role = NoRole \/ r.agent_role = agent_role))
        entry(r) == [session_id |-> r.session_id, agent_role |-> r.agent_role,
                     message_type |-> r.message_type, content |-> r.content,
                     metadata |-> JsonLoads(r.metadata), timestamp |-> r.timestamp,
                     importance_score |-> r.importance_score]
    IN {[i \in 1..Min(limit, Len(q)) |-> entry(q[i])] : q \in OrderByTimestampDesc(rows)}

\* The recent_messages of MemoryStore.get_session_summary.
RecentMessages(d, session_id) ==
    LET rows == SelectSeq(d.memory_entries, LAMBDA r : r.session_id = session_id)
    IN {[i \in 1..Min(RecentLimit, Len(q)) |->
            [content |-> q[i].content, agent |-> q[i].agent_role,
             timestamp |-> q[i].timestamp]] : q \in OrderByTimestampDesc(rows)}

\* MemoryStore.get_session_summary with no write between its three SELECTs:
\* the summaries a call may return (the order of rows with one timestamp is
\* sqlite's choice).
GetSessionSummary(session_id) ==
    {Summary(session_id, SelectSession(db, session_id),
             SelectAgentStats(db, session_id), recent_rows) :
        recent_rows \in RecentMessages(db, session_id)}

\* MemoryStore.get_agent_state: the state_data of the pair's newest row, or
\* None.
NoStateData == <<"None">>

GetAgentState(d, session_id, agent_role) ==
    LET rows == SelectSeq(d.agent_states,
                    LAMBDA r : r.session_id = session_id /\ r.agent_role = agent_role)
    IN IF rows = <<>> THEN {NoStateData}
       ELSE {q[1].state_data : q \in OrderByTimestampDesc(rows)}

\* The session and the role whose snapshots the callers save and read.
SnapshotSessions == {"s1"}
SnapshotRoles == {"problem_analyst"}

\* The days_to_keep the callers of cleanup_old_memories pass, in ticks of the
\* clock.
DaysToKeep == {0, 1}

\* MemoryStore.cleanup_old_memories as a function of the store: DELETE FROM
\* memory_entries WHERE timestamp < cutoff, in every session; the sessions
\* table is not written.
CleanupOldMemories(d, cutoff_date) ==
    [d EXCEPT !.memory_entries = SelectSeq(@, LAMBDA r : ~(r.timestamp < cutoff_date))]

\* The session get_session_summary is asked for (the appends go to either
\* session).
SummarySessions == {"s1"}

\* Some connection holds a shared lock, so that no commit can go through:
\* a SELECT of get_session_summary, get_memory_entries or get_agent_state
\* has run and found rows that are not fetched yet.  (sqlite3 steps a SELECT
\* once when it executes it; a SELECT that finds no row is finished by that
\* step and holds nothing.)
SharedLockHeld ==
    \/ summary_call.cursor_open
    \/ \E t \in Tasks :
          /\ tx[t].pc = "fetch"
          /\ \/ tx[t].call.entries # <<>>
             \/ tx[t].call.state \notin {<<>>, NoStateData}

\* A commit is waiting for the shared locks, or has given up waiting and
\* its connection is not closed yet: no SELECT can start.
CommitPending == \E t \in Tasks : tx[t].pc \in {"pending", "raised"}

\* The sessions of the calls whose lock the next statement of a task waits
\* for: the holder of the write lock for a first writing statement, the
\* holders of shared locks for a commit, the waiting commits for a SELECT.
Blockers(t) ==
    CASE tx[t].pc \in {"insert", "save", "delete"} ->
            IF db_lock \in Tasks \ {t} THEN {tx[db_lock].call.session_id} ELSE {}
      [] tx[t].pc = "pending" ->
            {tx[u].call.session_id :
                u \in {v \in Tasks : /\ tx[v].pc = "fetch"
                                     /\ \/ tx[v].call.entries # <<>>
                                        \/ tx[v].call.state \notin {<<>>, NoStateData}}}
              \cup (IF summary_call.cursor_open THEN {summary_call.session_id} ELSE {})
      [] tx[t].pc = "select" ->
            {tx[u].call.session_id :
                u \in {v \in Tasks : tx[v].pc \in {"pending", "raised"}}}
      [] OTHER -> {}

\* The errors the next statement of a task can raise: one of sqlite's own at
\* any time, "database is locked" when the statement waits for a lock
\* (sqlite3's busy timeout, 5 s by default, ran out).
E_LOCKED == "database is locked"
E_SQLITE == "unable to open database file"

StatementErrors(t) == {E_SQLITE} \cup (IF Blockers(t) # {} THEN {E_LOCKED} ELSE {})

\* A task may call a method when it is inside none.  The tasks are alike, so
\* of two idle tasks the first one is taken.
MayCall(t) ==
    /\ tx[t].pc = "idle"
    /\ t = "t1" \/ tx["t1"].pc # "idle"

\* add_memory_entry is called beside other appends: a connection is opened.
AddMemoryEntry(t) ==
    /\ MayCall(t)
    /\ appends_started < MaxAppends
    /\ \E entry \in AppendInputs(clock + 1) :
         tx' = [tx EXCEPT ![t] =
                   [IdleTx EXCEPT
                       !.pc = "insert",
                       !.call = [NoOp EXCEPT !.op = "add_memory_entry",
                                             !.session_id = entry.session_id,
                                             !.agent_role = entry.agent_role,
                                             !.entry = entry]]]
    /\ appends_started' = appends_started + 1
    /\ clock' = clock + 1
    /\ UNCHANGED <<db, db_lock, appended_ok, summary_call, save_call>>

\* add_memory_entry is called by a caller of the store's methods.
StoreAdd(t) ==
    /\ MayCall(t)
    /\ ops_done < MaxStoreOps
    /\ \E entry \in StoreEntries(ops_done + 1) :
         tx' = [tx EXCEPT ![t] =
                   [IdleTx EXCEPT
                       !.pc = "insert",
                       !.call = [NoOp EXCEPT !.op = "add_memory_entry",
                                             !.session_id = entry.session_id,
                                             !.agent_role = entry.agent_role,
                                             !.entry = entry]]]
    /\ clock' = clock + 1
    /\ ops_done' = ops_done + 1
    /\ UNCHANGED <<db, db_lock, appends_started, appended_ok, summary_call,
                   save_call, last_op>>

\* save_agent_state is called: the connection is opened and the arguments
\* of the INSERT are built, datetime.now() among them, before the statement
\* is awaited.
StoreSave(t) ==
    /\ MayCall(t)
    /\ ops_done < MaxStoreOps
    /\ \E s \in SnapshotSessions, r \in SnapshotRoles :
         tx' = [tx EXCEPT ![t] =
                   [IdleTx EXCEPT
                       !.pc = "save",
                       !.now = clock + 1,
                       !.call = [NoOp EXCEPT !.op = "save_agent_state",
                                             !.session_id = s,
                                             !.agent_role = r,
                                             !.state_data = <<"state no.", ops_done + 1>>]]]
    /\ clock' = clock + 1
    /\ ops_done' = ops_done + 1
    /\ UNCHANGED <<db, db_lock, appends_started, appended_ok, summary_call,
                   save_call, last_op>>

\* cleanup_old_memories(days_to_keep) is called: the cutoff is computed
\* before the connection is opened.
StoreCleanup(t) ==
    /\ MayCall(t)
    /\ ops_done < MaxStoreOps
    /\ \E days_to_keep \in DaysToKeep :
         tx' = [tx EXCEPT ![t] =
                   [IdleTx EXCEPT
                       !.pc = "delete",
                       !.cutoff_date = (clock + 1) - days_to_keep,
                       !.call = [NoOp EXCEPT !.op = "cleanup_old_memories",
                                             !.limit = days_to_keep]]]
    /\ clock' = clock + 1
    /\ ops_done' = ops_done + 1
    /\ UNCHANGED <<db, db_lock, appends_started, appended_ok, summary_call,
                   save_call, last_op>>

\* get_memory_entries(session_id, limit=..., min_importance=0) is called.
StoreGetEntries(t) ==
    /\ MayCall(t)
    /\ ops_done < MaxStoreOps
    /\ \E arg \in {<<"s1", 1>>, <<"s1", DefaultLimit>>, <<"s2", DefaultLimit>>} :
         tx' = [tx EXCEPT ![t] =
                   [IdleTx EXCEPT
                       !.pc = "select",
                       !.call = [NoOp EXCEPT !.op = "get_memory_entries",
                                             !.session_id = arg[1],
                                             !.limit = arg[2]]]]
    /\ ops_done' = ops_done + 1
    /\ UNCHANGED <<db, db_lock, clock, appends_started, appended_ok, summary_call,
                   save_call, last_op>>

\* get_agent_state is called.
StoreGetState(t) ==
    /\ MayCall(t)
    /\ ops_done < MaxStoreOps
    /\ \E s \in SnapshotSessions, r \in SnapshotRoles :
         tx' = [tx EXCEPT ![t] =
                   [IdleTx EXCEPT
                       !.pc = "select",
                       !.call = [NoOp EXCEPT !.op = "get_agent_state",
                                             !.session_id = s,
                                             !.agent_role = r]]]
    /\ ops_done' = ops_done + 1
    /\ UNCHANGED <<db, db_lock, clock, appends_started, appended_ok, summary_call,
                   save_call, last_op>>

\* The INSERT of add_memory_entry runs: the connection's transaction begins
\* and takes the write lock.
ExecInsert(t) ==
    /\ tx[t].pc = "insert"
    /\ db_lock = NoTask
    /\ LET work == InsertEntry(db, tx[t].call.entry)
       IN /\ tx' = [tx EXCEPT ![t].pc = "update", ![t].work = work]
          /\ db' = VisibleAfterStatement(db, work)
    /\ db_lock' = t
    /\ UNCHANGED <<clock, appends_started, appended_ok, summary_call, save_call>>

\* The INSERT OR REPLACE of save_agent_state runs once the write lock is
\* free, with the time its arguments were built at.
ExecSave(t) ==
    /\ tx[t].pc = "save"
    /\ db_lock = NoTask
    /\ LET work == SaveAgentState(db, tx[t].call.session_id, tx[t].call.agent_role,
                                  tx[t].call.state_data, tx[t].now)
       IN /\ tx' = [tx EXCEPT ![t].pc = "commit", ![t].work = work]
          /\ db' = VisibleAfterStatement(db, work)
    /\ db_lock' = t
    /\ UNCHANGED <<clock, appends_started, appended_ok, summary_call, save_call>>

\* The DELETE of cleanup_old_memories runs; cursor.rowcount is the number
\* of rows it deleted.
ExecDelete(t) ==
    /\ tx[t].pc = "delete"
    /\ db_lock = NoTask
    /\ LET work == CleanupOldMemories(db, tx[t].cutoff_date)
       IN /\ tx' = [tx EXCEPT
                       ![t].pc = "commit",
                       ![t].work = work,
                       ![t].call.deleted_count =
                           Len(db.memory_entries) - Len(work.memory_entries)]
          /\ db' = VisibleAfterStatement(db, work)
    /\ db_lock' = t
    /\ UNCHANGED <<clock, appends_started, appended_ok, summary_call, save_call>>

\* The connection or the first writing statement raises (database is
\* locked: another connection held the write lock for the busy timeout; or
\* an error of sqlite's own): nothing was written, the except branch is
\* entered once the connection is closed.
ExecInsertFails(t) ==
    /\ tx[t].pc \in {"insert", "save", "delete"}
    /\ \E error \in StatementErrors(t) :
          tx' = [tx EXCEPT ![t].pc = "close", ![t].call.ok = FALSE,
                           ![t].call.error = error]
    /\ UNCHANGED <<db, db_lock, clock, appends_started, appended_ok, summary_call, save_call>>

\* _update_session runs inside the same transaction.
ExecUpdateSession(t) ==
    /\ tx[t].pc = "update"
    /\ LET work == UpdateSession(tx[t].work, tx[t].call.session_id, clock)
       IN /\ tx' = [tx EXCEPT ![t].pc = "commit", ![t].work = work]
          /\ db' = VisibleAfterStatement(db, work)
    /\ UNCHANGED <<db_lock, clock, appends_started, appended_ok, summary_call, save_call>>

\* db.commit() finds a shared lock held and waits for it.
CommitWaits(t) ==
    /\ tx[t].pc = "commit"
    /\ SharedLockHeld
    /\ tx' = [tx EXCEPT ![t].pc = "pending"]
    /\ UNCHANGED <<db, db_lock, clock, appends_started, appended_ok, summary_call, save_call>>

\* db.commit() succeeds: the transaction becomes the database and the write
\* lock is free; the method is about to return True (cleanup_old_memories:
\* the rowcount), its connection still to be closed.
Commit(t) ==
    /\ tx[t].pc \in {"commit", "pending"}
    /\ ~SharedLockHeld
    /\ db' = tx[t].work
    /\ db_lock' = NoTask
    /\ tx' = [tx EXCEPT ![t].pc = "close", ![t].work = EmptyDb]
    /\ UNCHANGED <<clock, appends_started, appended_ok, summary_call, save_call>>

\* A later statement or the commit raises (the commit waited for the busy
\* timeout): nothing is committed, and the except branch will return False
\* (cleanup_old_memories: 0).  The connection is still open: it keeps the
\* write lock, and the pending lock of a commit that waited, until the exit
\* of the async with block closes it.
Rollback(t) ==
    /\ tx[t].pc \in {"update", "commit", "pending"}
    /\ \E error \in StatementErrors(t) :
          tx' = [tx EXCEPT ![t].pc = IF tx[t].pc = "pending" THEN "raised"
                                     ELSE "close",
                           ![t].work = EmptyDb,
                           ![t].call.ok = FALSE, ![t].call.error = error,
                           ![t].call.deleted_count = 0]
    /\ UNCHANGED <<db, db_lock, clock, appends_started, appended_ok, summary_call,
                   save_call>>

\* The connection of a call is closed, which rolls back a transaction that
\* was not committed and gives up the locks it held, and the method
\* returns: what it found or True, or the value of its except branch.  An
\* add_memory_entry that returns True is counted.
CloseAndReturn(t) ==
    /\ tx[t].pc \in {"close", "raised"}
    /\ db_lock' = IF db_lock = t THEN NoTask ELSE db_lock
    /\ appended_ok' =
          IF tx[t].call.op = "add_memory_entry" /\ tx[t].call.ok
          THEN [appended_ok EXCEPT ![tx[t].call.session_id] = @ + 1]
          ELSE appended_ok
    /\ tx' = [tx EXCEPT ![t] = IdleTx]
    /\ UNCHANGED <<db, clock, appends_started, summary_call, save_call>>

\* What the caller of a method gets when it returns.
Returns(t) == last_op' = tx[t].call

\* The SELECT of get_memory_entries runs: the rows are read from the
\* committed database.
ExecSelectEntries(t) ==
    /\ tx[t].pc = "select"
    /\ tx[t].call.op = "get_memory_entries"
    /\ ~CommitPending
    /\ \E entries \in GetMemoryEntries(db, tx[t].call.session_id, NoRole,
                                       tx[t].call.limit, 0) :
          tx' = [tx EXCEPT ![t].pc = "fetch", ![t].call.entries = entries]
    /\ UNCHANGED <<db, db_lock, clock, appends_started, appended_ok, summary_call,
                   save_call, op_vars>>

\* The SELECT of get_agent_state runs.
ExecSelectState(t) ==
    /\ tx[t].pc = "select"
    /\ tx[t].call.op = "get_agent_state"
    /\ ~CommitPending
    /\ \E data \in GetAgentState(db, tx[t].call.session_id, tx[t].call.agent_role) :
          tx' = [tx EXCEPT ![t].pc = "fetch", ![t].call.state = data]
    /\ UNCHANGED <<db, db_lock, clock, appends_started, appended_ok, summary_call,
                   save_call, op_vars>>

\* fetchall / fetchone: the rows are handed over and the result is built;
\* the shared lock is gone, the cursor and the connection are still to be
\* closed.
Fetch(t) ==
    /\ tx[t].pc = "fetch"
    /\ tx' = [tx EXCEPT ![t].pc = "close"]
    /\ UNCHANGED <<db, db_lock, clock, appends_started, appended_ok, summary_call,
                   save_call, op_vars>>

\* The connection, the SELECT or the fetch raises: the cursor is given up,
\* and get_memory_entries will return [], get_agent_state None.
SelectFails(t) ==
    /\ tx[t].pc \in {"select", "fetch"}
    /\ \E error \in StatementErrors(t) :
          tx' = [tx EXCEPT
                    ![t].pc = "close",
                    ![t].call.ok = FALSE,
                    ![t].call.error = error,
                    ![t].call.entries = <<>>,
                    ![t].call.state = IF tx[t].call.op = "get_agent_state"
                                      THEN NoStateData ELSE <<>>]
    /\ UNCHANGED <<db, db_lock, clock, appends_started, appended_ok, summary_call,
                   save_call, op_vars>>

\* get_session_summary: each SELECT is a statement of its own (no
\* transaction is open between them), so a write may commit between two of
\* them.  The first SELECT, on a fresh connection.
SummarySelectSession ==
    /\ summary_call.pc = "idle"
    /\ ~CommitPending
    /\ \E session_id \in SummarySessions :
          summary_call' =
              [IdleSummary EXCEPT
                  !.pc = "agent_stats",
                  !.session_id = session_id,
                  !.session_row = SelectSession(db, session_id),
                  !.cursor_open = SelectSession(db, session_id).present,
                  !.ok_at_select = appended_ok[session_id],
                  !.unreturned_at_select =
                      Cardinality({t \in Tasks :
                                      /\ tx[t].pc = "close"
                                      /\ tx[t].call.op = "add_memory_entry"
                                      /\ tx[t].call.ok
                                      /\ tx[t].call.session_id = session_id})]
    /\ UNCHANGED <<db, db_lock, tx, clock, appends_started, appended_ok, save_call>>

\* The second SELECT.
SummarySelectAgentStats ==
    /\ summary_call.pc = "agent_stats"
    /\ ~summary_call.cursor_open
    /\ ~CommitPending
    /\ summary_call' =
          [summary_call EXCEPT
              !.pc = "recent",
              !.agent_rows = SelectAgentStats(db, summary_call.session_id),
              !.cursor_open = SelectAgentStats(db, summary_call.session_id) # {}]
    /\ UNCHANGED <<db, db_lock, tx, clock, appends_started, appended_ok, save_call>>

\* The third SELECT.
SummarySelectRecent ==
    /\ summary_call.pc = "recent"
    /\ ~summary_call.cursor_open
    /\ ~CommitPending
    /\ \E recent_rows \in RecentMessages(db, summary_call.session_id) :
          summary_call' =
              [summary_call EXCEPT
                  !.pc = "build",
                  !.cursor_open = recent_rows # <<>>,
                  !.summary = Summary(summary_call.session_id,
                                      summary_call.session_row,
                                      summary_call.agent_rows, recent_rows)]
    /\ UNCHANGED <<db, db_lock, tx, clock, appends_started, appended_ok, save_call>>

\* fetchone / fetchall on the cursor of the SELECT that ran last: the rows
\* are handed over and the shared lock is gone; after the third one the
\* summary is built, the connection still to be closed.
SummaryFetch ==
    /\ summary_call.cursor_open \/ summary_call.pc = "build"
    /\ summary_call' =
          [summary_call EXCEPT
              !.cursor_open = FALSE,
              !.pc = IF @ = "build" THEN "close" ELSE @]
    /\ UNCHANGED <<db, db_lock, tx, clock, appends_started, appended_ok, save_call>>

\* The connection, a SELECT or a fetch raises (database is locked, or an
\* error of sqlite's own): the cursor is given up and the except branch
\* will return {}.
SummaryRaises ==
    /\ \/ /\ summary_call.pc \in {"agent_stats", "recent", "build"}
          /\ summary_call' =
                [summary_call EXCEPT !.pc = "close", !.cursor_open = FALSE,
                                     !.summary = NoSummary]
       \/ /\ summary_call.pc = "idle"
          /\ \E session_id \in SummarySessions :
                summary_call' =
                    [IdleSummary EXCEPT !.pc = "close", !.session_id = session_id]
    /\ UNCHANGED <<db, db_lock, tx, clock, appends_started, appended_ok, save_call>>

\* The connection of get_session_summary is closed and the method returns
\* the summary, or {}.
SummaryReturn ==
    /\ summary_call.pc = "close"
    /\ summary_call' = [summary_call EXCEPT !.pc = "returned"]
    /\ UNCHANGED <<db, db_lock, tx, clock, appends_started, appended_ok, save_call>>

\* get_session_summary is called by a caller of the store's methods, as one
\* of its calls: the first SELECT runs.
StoreSummary ==
    /\ ops_done < MaxStoreOps
    /\ SummarySelectSession
    /\ ops_done' = ops_done + 1
    /\ UNCHANGED last_op

InitOps ==
    /\ last_op = NoOp
    /\ ops_done = 0

----------------------------------------------------------------------------
(* RoutingEngine *)

\* The members of AgentRole (models/state.py).
AgentRoleMembers == {"RECEPTIONIST", "PROBLEM_ANALYST", "SOLUTION_EXPERT"}

\* AgentRole.<NAME>.value
RoleValue(member) ==
    CASE member = "RECEPTIONIST" -> "receptionist"
      [] member = "PROBLEM_ANALYST" -> "problem_analyst"
      [] member = "SOLUTION_EXPERT" -> "solution_expert"

\* The table of _initialize_routing_rules, as written: each target is an
\* attribute of AgentRole, looked up when the table is built.
Rule(target, reason) == [target |-> target, reason |-> <<reason>>]

RuleTable ==
    [severity_based |->
        [critical |-> Rule("SOLUTION_EXPERT",
                           "Critical severity requires expert intervention"),
         high |-> Rule("SOLUTION_EXPERT", "High severity needs expert attention"),
         medium |-> Rule("PROBLEM_ANALYST", "Medium severity needs analysis"),
         low |-> Rule("PROBLEM_ANALYST", "Low severity can be handled by analyst")],
     category_based |->
        [technical |-> Rule("SOLUTION_EXPERT",
                            "Technical issues require expert solutions"),
         billing |-> Rule("PROBLEM_ANALYST", "Billing issues need investigation"),
         account |-> Rule("PROBLEM_ANALYST", "Account issues need analysis"),
         general |-> Rule("RECEPTIONIST",
                          "General inquiries can be handled by receptionist")],
     confidence_based |->
        [low |-> Rule("SOLUTION_EXPERT", "Low confidence requires expert review"),
         medium |-> Rule("PROBLEM_ANALYST", "Medium confidence needs analysis"),
         high |-> Rule("AGENT_ROLE",
                       "High confidence allows current agent to continue")]]

RuleTargets ==
    UNION {{RuleTable[t][k].target : k \in DOMAIN RuleTable[t]} : t \in DOMAIN RuleTable}

\* RoutingEngine._initialize_routing_rules under an AgentRole with the given
\* members: the table, or the AttributeError of the first missing member.
InitializeRoutingRules(members) ==
    IF RuleTargets \subseteq members
    THEN [ok |-> TRUE,
          rules |-> [t \in DOMAIN RuleTable |->
                        [k \in DOMAIN RuleTable[t] |->
                            [target |-> RoleValue(RuleTable[t][k].target),
                             reason |-> RuleTable[t][k].reason]]],
          error |-> <<>>]
    ELSE [ok |-> FALSE, rules |-> <<>>, error |-> <<"AttributeError", "AGENT_ROLE">>]

NoEngine == [status |-> "none", routing_rules |-> <<>>,
             decision_history |-> <<>>, error |-> <<>>]

\* The key of the category table a category text is, if it is one.
CategoryKey(category) ==
    CASE category = <<"technical">> -> "technical"
      [] category = <<"billing">> -> "billing"
      [] category = <<"account">> -> "account"
      [] category = <<"general">> -> "general"
      [] OTHER -> ""

EscalationKeywords ==
    {"urgent", "emergency", "critical", "escalate", "manager", "supervisor"}
ResolutionIndicators ==
    {"resolved", "fixed", "solved", "working", "thank you", "thanks"}

\* The last n entries of a list: history[-n:].
LastN(history, n) ==
    SubSeq(history, IF Len(history) > n THEN Len(history) - n + 1 ELSE 1, Len(history))

\* RoutingEngine._analyze_conversation_patterns.  The method reads nothing
\* of the engine it is called on.
AnalyzeConversationPatterns(history) ==
    IF history = <<>>
    THEN [pattern |-> "no_history", escalation_detected |-> FALSE,
          resolution_detected |-> FALSE]
    ELSE [pattern |-> "analyzed",
          escalation_detected |->
              \E i \in DOMAIN history :
                  ContainsAny(LowerText(history[i].content), EscalationKeywords),
          resolution_detected |->
              \E i \in DOMAIN LastN(history, 3) :
                  ContainsAny(LowerText(LastN(history, 3)[i].content),
                              ResolutionIndicators)]

\* RoutingEngine._analyze_routing_factors.  A factor the code leaves out of
\* the dictionary (no analysis_result) is marked absent.
AnalyzeRoutingFactors(st, current_agent) ==
    [current_agent |-> current_agent,
     session_context |->
        [message_count |-> Len(st.conversation_history),
         has_solution |-> st.solution.present,
         has_analysis |-> st.analysis_result.present,
         handoff_reason |-> st.handoff_reason],
     has_analysis_factors |-> st.analysis_result.present,
     severity |-> st.analysis_result.severity,
     category |-> st.analysis_result.category,
     confidence |-> st.analysis_result.confidence_score,
     conversation_patterns |-> AnalyzeConversationPatterns(st.conversation_history)]

Decision(decision, target, reason) ==
    [decision |-> decision, target |-> target, reason |-> reason]

\* RoutingEngine._apply_routing_rules
ApplyRoutingRules(rules, factors, current_agent) ==
    LET severity == IF factors.has_analysis_factors THEN factors.severity ELSE "medium"
        category == IF factors.has_analysis_factors THEN CategoryKey(factors.category)
                    ELSE "general"
        confidence == IF factors.has_analysis_factors THEN factors.confidence ELSE 8
        by_category == IF category \in DOMAIN rules.category_based
                       THEN rules.category_based[category]
                       ELSE [target |-> "", reason |-> <<>>]
    IN IF factors.conversation_patterns.escalation_detected
       THEN Decision("escalate", "solution_expert", <<"Escalation keywords detected">>)
       ELSE IF factors.conversation_patterns.resolution_detected
       THEN Decision("end_conversation", current_agent,
                     <<"Resolution indicators detected">>)
       ELSE IF severity \in DOMAIN rules.severity_based
       THEN Decision("handoff_to_expert", rules.severity_based[severity].target,
                     rules.severity_based[severity].reason)
       ELSE IF by_category.target \notin {"", current_agent}
                /\ by_category.target = "solution_expert"
       THEN Decision("handoff_to_expert", by_category.target, by_category.reason)
       ELSE IF by_category.target \notin {"", current_agent}
                /\ by_category.target = "problem_analyst"
       THEN Decision("handoff_to_analyst", by_category.target, by_category.reason)
       ELSE IF confidence < 6
       THEN Decision("handoff_to_expert", rules.confidence_based["low"].target,
                     rules.confidence_based["low"].reason)
       ELSE Decision("continue_current", current_agent,
                     <<"Continue with current processing">>)

\* The record make_routing_decision builds for the decision history.  The
\* decision is the tuple _apply_routing_rules returned, and the record asks
\* for its .value: the AttributeError of a tuple.
DecisionRecord(factors, decision) ==
    [ok |-> FALSE, record |-> <<>>,
     error |-> <<"AttributeError", "'tuple' object has no attribute 'value'">>]

\* RoutingEngine.make_routing_decision(state, current_agent) on an engine:
\* the engine after the call, and what the caller gets.
MakeRoutingDecision(eng, st, current_agent) ==
    LET analysis_factors == AnalyzeRoutingFactors(st, current_agent)
        decision == ApplyRoutingRules(eng.routing_rules, analysis_factors,
                                      current_agent)
        rec == DecisionRecord(analysis_factors, decision)
    IN [engine |-> [eng EXCEPT !.decision_history =
                       IF rec.ok THEN Append(@, rec.record) ELSE @],
        decision |-> decision,
        returned |-> rec.ok,
        raised |-> rec.error]

\* RoutingEngine.clear_decision_history on an engine.
ClearDecisionHistory(eng) == [eng EXCEPT !.decision_history = <<>>]

\* RoutingEngine.optimize_routing_rules(performance_data) on an engine:
\* success_rates gives a rate, in tenths, for some categories; a category of
\* the table whose rate is below 0.7 and whose target is the analyst is
\* given to the expert.
OptimizeRoutingRules(eng, success_rates) ==
    [eng EXCEPT !.routing_rules.category_based =
        [c \in DOMAIN @ |->
            IF /\ c \in DOMAIN success_rates
               /\ success_rates[c] < 7
               /\ @[c].target = "problem_analyst"
            THEN [target |-> "solution_expert",
                  reason |-> @[c].reason \o <<" (optimized for success rate)">>]
            ELSE @[c]]]

NoPatterns == [analyzed |-> FALSE, escalation_detected |-> FALSE,
               resolution_detected |-> FALSE]

\* The states a routing decision is wanted for: a history of user messages
\* and, possibly, an analysis.
R_PLAIN == <<"my invoice shows the wrong amount">>

RECURSIVE Histories(_)
Histories(n) ==
    IF n = 0 THEN {<<>>}
    ELSE Histories(n - 1) \cup
         {Append(h, [type |-> "user_query", sender |-> "user", content |-> c]) :
             h \in {g \in Histories(n - 1) : Len(g) = n - 1},
             c \in {R_PLAIN, <<"URGENT", " system is down in production">>,
                    <<"Thanks", ", that did it">>}}

RoutingAnalyses ==
    {NoAnalysis} \cup
    [present : {TRUE},
     category : {<<"technical">>, <<"billing">>, <<"general">>, <<"complaint">>},
     severity : {"low", "medium", "high", "critical", "High"},
     confidence_score : {5, 8},
     recommended_agent : {"problem_analyst"},
     by : {"receptionist"}]

RoutingStates ==
    {[CreateInitialState(R_PLAIN) EXCEPT !.conversation_history = h,
                                         !.analysis_result = a] :
        h \in Histories(MaxHistory), a \in RoutingAnalyses}

\* RoutingEngine(): __init__ builds the rule table, then the empty history.
\* AgentRole has no member AGENT_ROLE, so the table cannot be built and the
\* constructor raises: the program never holds an engine.
NewRoutingEngine ==
    /\ engine.status = "none"
    /\ LET made == InitializeRoutingRules(AgentRoleMembers)
       IN engine' =
             IF made.ok
             THEN [status |-> "built", routing_rules |-> made.rules,
                   decision_history |-> <<>>, error |-> <<>>]
             ELSE [NoEngine EXCEPT !.status = "failed", !.error = made.error]
    /\ UNCHANGED routing

\* RoutingEngine._analyze_conversation_patterns(history), called on the
\* class for want of an engine.
AnalyzePatterns ==
    /\ ~routing.analyzed
    /\ LET patterns == AnalyzeConversationPatterns(state.conversation_history)
       IN routing' = [analyzed |-> TRUE,
                      escalation_detected |-> patterns.escalation_detected,
                      resolution_detected |-> patterns.resolution_detected]
    /\ UNCHANGED engine

InitEngine ==
    /\ engine = NoEngine
    /\ routing = NoPatterns

----------------------------------------------------------------------------
(* Specifications *)

\* One agent answering a bounded number of call_llm calls.
InitLLM == InitAgent /\ InitStore /\ InitWorkflow /\ InitOps /\ InitEngine

StepLLM ==
    \/ CallLLM /\ UNCHANGED <<store_vars, wf_vars, ext_vars>>
    \/ FirstInvoke /\ UNCHANGED <<store_vars, wf_vars, ext_vars>>
    \/ RetryInvoke /\ UNCHANGED <<store_vars, wf_vars, ext_vars>>
    \/ FallbackInvoke /\ UNCHANGED <<store_vars, wf_vars, ext_vars>>
    \/ CallDone /\ UNCHANGED <<store_vars, wf_vars, ext_vars>>

SpecLLM == InitLLM /\ [][StepLLM]_vars

\* Two tasks appending to one store, and one get_session_summary call.
InitAppend ==
    InitStore /\ InitAgent /\ InitWorkflow /\ InitOps /\ InitEngine /\ fallback_models = <<>>

StepAppend ==
    \E t \in Tasks :
        \/ AddMemoryEntry(t) /\ UNCHANGED <<llm_vars, wf_vars, ext_vars>>
        \/ ExecInsert(t) /\ UNCHANGED <<llm_vars, wf_vars, ext_vars>>
        \/ ExecInsertFails(t) /\ UNCHANGED <<llm_vars, wf_vars, ext_vars>>
        \/ ExecUpdateSession(t) /\ UNCHANGED <<llm_vars, wf_vars, ext_vars>>
        \/ CommitWaits(t) /\ UNCHANGED <<llm_vars, wf_vars, ext_vars>>
        \/ Commit(t) /\ UNCHANGED <<llm_vars, wf_vars, ext_vars>>
        \/ Rollback(t) /\ UNCHANGED <<llm_vars, wf_vars, ext_vars>>
        \/ CloseAndReturn(t) /\ UNCHANGED <<llm_vars, wf_vars, ext_vars>>
        \/ SummarySelectSession /\ UNCHANGED <<llm_vars, wf_vars, ext_vars>>
        \/ SummarySelectAgentStats /\ UNCHANGED <<llm_vars, wf_vars, ext_vars>>
        \/ SummarySelectRecent /\ UNCHANGED <<llm_vars, wf_vars, ext_vars>>
        \/ SummaryFetch /\ UNCHANGED <<llm_vars, wf_vars, ext_vars>>
        \/ SummaryRaises /\ UNCHANGED <<llm_vars, wf_vars, ext_vars>>
        \/ SummaryReturn /\ UNCHANGED <<llm_vars, wf_vars, ext_vars>>

SpecAppend == InitAppend /\ [][StepAppend]_vars

\* One run_workflow call on a fresh session.
InitWF ==
    InitWorkflow /\ InitStore /\ InitAgent /\ InitOps /\ InitEngine /\ fallback_models = <<>>

StepWF ==
    \/ RunWorkflow /\ UNCHANGED <<llm_vars, ext_vars>>
    \/ SaveMessageStep /\ UNCHANGED <<llm_vars, ext_vars>>
    \/ SaveStateStep /\ UNCHANGED <<llm_vars, ext_vars>>
    \/ ReceptionistNode /\ UNCHANGED <<llm_vars, ext_vars>>
    \/ ProblemAnalystNode /\ UNCHANGED <<llm_vars, ext_vars>>
    \/ SolutionExpertNode /\ UNCHANGED <<llm_vars, ext_vars>>
    \/ ReceptionistEdge /\ UNCHANGED <<llm_vars, ext_vars>>
    \/ ProblemAnalystEdge /\ UNCHANGED <<llm_vars, ext_vars>>
    \/ SolutionExpertEdge /\ UNCHANGED <<llm_vars, ext_vars>>

SpecWF == InitWF /\ [][StepWF]_vars

\* Two tasks calling the store's methods, and one get_session_summary call.
InitOpsSpec ==
    InitOps /\ InitStore /\ InitAgent /\ InitWorkflow /\ InitEngine /\ fallback_models = <<>>

StepStore ==
    \E t \in Tasks :
        \/ StoreAdd(t) /\ UNCHANGED <<llm_vars, wf_vars, route_vars>>
        \/ StoreSave(t) /\ UNCHANGED <<llm_vars, wf_vars, route_vars>>
        \/ StoreGetEntries(t) /\ UNCHANGED <<llm_vars, wf_vars, route_vars>>
        \/ StoreGetState(t) /\ UNCHANGED <<llm_vars, wf_vars, route_vars>>
        \/ ExecInsert(t) /\ UNCHANGED <<llm_vars, wf_vars, ext_vars>>
        \/ ExecSave(t) /\ UNCHANGED <<llm_vars, wf_vars, ext_vars>>
        \/ ExecInsertFails(t) /\ UNCHANGED <<llm_vars, wf_vars, ext_vars>>
        \/ ExecUpdateSession(t) /\ UNCHANGED <<llm_vars, wf_vars, ext_vars>>
        \/ CommitWaits(t) /\ UNCHANGED <<llm_vars, wf_vars, ext_vars>>
        \/ Commit(t) /\ UNCHANGED <<llm_vars, wf_vars, ext_vars>>
        \/ Rollback(t) /\ UNCHANGED <<llm_vars, wf_vars, ext_vars>>
        \/ CloseAndReturn(t) /\ Returns(t)
              /\ UNCHANGED <<llm_vars, wf_vars, ops_done, route_vars>>
        \/ ExecSelectEntries(t) /\ UNCHANGED <<llm_vars, wf_vars, route_vars>>
        \/ ExecSelectState(t) /\ UNCHANGED <<llm_vars, wf_vars, route_vars>>
        \/ Fetch(t) /\ UNCHANGED <<llm_vars, wf_vars, route_vars>>
        \/ SelectFails(t) /\ UNCHANGED <<llm_vars, wf_vars, route_vars>>
        \/ StoreSummary /\ UNCHANGED <<llm_vars, wf_vars, route_vars>>
        \/ SummarySelectAgentStats /\ UNCHANGED <<llm_vars, wf_vars, ext_vars>>
        \/ SummarySelectRecent /\ UNCHANGED <<llm_vars, wf_vars, ext_vars>>
        \/ SummaryFetch /\ UNCHANGED <<llm_vars, wf_vars, ext_vars>>
        \/ SummaryRaises /\ UNCHANGED <<llm_vars, wf_vars, ext_vars>>
        \/ SummaryReturn /\ UNCHANGED <<llm_vars, wf_vars, ext_vars>>

SpecStore == InitOpsSpec /\ [][StepStore]_vars

\* The store under appends, clean-ups and a summary.
StepCleanup ==
    \E t \in Tasks :
        \/ StoreAdd(t) /\ UNCHANGED <<llm_vars, wf_vars, route_vars>>
        \/ StoreCleanup(t) /\ UNCHANGED <<llm_vars, wf_vars, route_vars>>
        \/ ExecInsert(t) /\ UNCHANGED <<llm_vars, wf_vars, ext_vars>>
        \/ ExecDelete(t) /\ UNCHANGED <<llm_vars, wf_vars, ext_vars>>
        \/ ExecInsertFails(t) /\ UNCHANGED <<llm_vars, wf_vars, ext_vars>>
        \/ ExecUpdateSession(t) /\ UNCHANGED <<llm_vars, wf_vars, ext_vars>>
        \/ CommitWaits(t) /\ UNCHANGED <<llm_vars, wf_vars, ext_vars>>
        \/ Commit(t) /\ UNCHANGED <<llm_vars, wf_vars, ext_vars>>
        \/ Rollback(t) /\ UNCHANGED <<llm_vars, wf_vars, ext_vars>>
        \/ CloseAndReturn(t) /\ Returns(t)
              /\ UNCHANGED <<llm_vars, wf_vars, ops_done, route_vars>>
        \/ StoreSummary /\ UNCHANGED <<llm_vars, wf_vars, route_vars>>
        \/ SummarySelectAgentStats /\ UNCHANGED <<llm_vars, wf_vars, ext_vars>>
        \/ SummarySelectRecent /\ UNCHANGED <<llm_vars, wf_vars, ext_vars>>
        \/ SummaryFetch /\ UNCHANGED <<llm_vars, wf_vars, ext_vars>>
        \/ SummaryRaises /\ UNCHANGED <<llm_vars, wf_vars, ext_vars>>
        \/ SummaryReturn /\ UNCHANGED <<llm_vars, wf_vars, ext_vars>>

SpecCleanup == InitOpsSpec /\ [][StepCleanup]_vars

\* A state a routing decision is wanted for: the engine is constructed, the
\* conversation patterns are analysed.
InitRoute ==
    /\ InitEngine /\ InitOps /\ InitStore /\ InitAgent /\ fallback_models = <<>>
    /\ state \in RoutingStates
    /\ initial_state = state
    /\ wf_node = "start"
    /\ wf_stage = "idle"
    /\ result = NoReturn
    /\ trace = <<>>

StepRoute ==
    \/ NewRoutingEngine /\ UNCHANGED <<llm_vars, store_vars, wf_vars, op_vars>>
    \/ AnalyzePatterns /\ UNCHANGED <<llm_vars, store_vars, wf_vars, op_vars>>

SpecRoute == InitRoute /\ [][StepRoute]_vars

----------------------------------------------------------------------------
(* Claims about call_llm (SpecLLM).                                        *)
(* The claims classify the first error by its text, not by the operators   *)
(* under test.                                                             *)

TransientTexts == {E_TIMEOUT, E_CONN, E_403_503}
ForbiddenTexts == {E_403, E_403_503}

Invs == call.invocations
CallFinished == call.pc \in {"returned", "raised"}
FirstFailed == Len(Invs) >= 1 /\ ~Invs[1].out.ok
FirstTransient == FirstFailed /\ Invs[1].out.msg \in TransientTexts
FirstForbidden == FirstFailed /\ Invs[1].out.msg \in ForbiddenTexts
RetryDone == Len(Invs) >= 2 /\ Invs[2].via = "llm"
RetrySucceeded == RetryDone /\ Invs[2].out.ok
InvocationsOf(model) == {i \in DOMAIN Invs : Invs[i].model = model}
ViaLLM == {i \in DOMAIN Invs : Invs[i].via = "llm"}
ViaFallback == {i \in DOMAIN Invs : Invs[i].via = "fallback_llm"}
\* The models the fallback loop invoked, in the order it invoked them.
FallbackRun == [k \in 1..Cardinality(ViaFallback) |->
                   Invs[Len(Invs) - Cardinality(ViaFallback) + k]]
AllFallbacksFailed ==
    /\ Cardinality(ViaFallback) = Len(fallback_models)
    /\ \A i \in ViaFallback : ~Invs[i].out.ok
ReturnOf(i) == [kind |-> "return", content |-> Invs[i].out.content, error |-> NoError]

\* C5 as stated: after a transient first failure the same model is invoked
\* exactly once more with the same messages, a successful retry is the result,
\* and no call invokes the active model more than twice.
C5_AsStated ==
    CallFinished =>
        /\ Cardinality(InvocationsOf(call.model_at_start)) <= 2
        /\ FirstTransient =>
              /\ Len(Invs) >= 2
              /\ Invs[2].model = Invs[1].model
              /\ Invs[2].messages = Invs[1].messages
              /\ Cardinality(InvocationsOf(Invs[1].model)) = 2
              /\ Invs[2].out.ok => call.result = ReturnOf(2)

\* C5 amended: after a transient first failure the next invocation is the one
\* retry, by the agent's own client, of the same model with the same messages;
\* a successful retry ends the call with its text.  The agent's own client is
\* invoked at most twice in a call; the active model is invoked a third time
\* only by the fallback loop, when the first error is access-forbidden too and
\* the active model is in the fallback list.
C5_RetryOnce ==
    /\ Cardinality(ViaLLM) <= 2
    /\ ViaLLM \subseteq {1, 2}
    /\ (FirstTransient /\ call.pc # "retry") =>
          /\ RetryDone
          /\ Invs[2].model = Invs[1].model
          /\ Invs[2].messages = Invs[1].messages
          /\ Invs[2].out.ok =>
                call.pc = "returned" /\ call.result = ReturnOf(2) /\ Len(Invs) = 2
    /\ (RetryDone => FirstTransient)
    /\ \A i \in InvocationsOf(call.model_at_start) :
          i > 2 => /\ Invs[i].via = "fallback_llm"
                   /\ FirstForbidden
                   /\ Contains(fallback_models, call.model_at_start)

C5_Witness ==
    /\ call.pc = "returned"
    /\ Invs[1].out.msg = E_TIMEOUT
    /\ Len(Invs) = 2
    /\ call.result = ReturnOf(2)

\* C6 as stated: after an access-forbidden first failure with fallbacks
\* configured, the fallbacks are invoked in order, once each, with the same
\* messages, up to the first success, which becomes the active model and
\* whose text is the result.
C6_AsStated ==
    (CallFinished /\ FirstForbidden /\ fallback_models # <<>>) =>
        /\ Cardinality(ViaFallback) >= 1
        /\ \A m \in ModelPool \cup {PrimaryModel} :
              Cardinality({i \in ViaFallback : Invs[i].model = m}) <= 1
        /\ \A k \in DOMAIN FallbackRun :
              /\ FallbackRun[k].model = fallback_models[k]
              /\ FallbackRun[k].messages = Invs[1].messages
              /\ FallbackRun[k].out.ok <=> (k = Len(FallbackRun) /\ call.pc = "returned")
        /\ call.pc = "raised" => Len(FallbackRun) = Len(fallback_models)
        /\ call.pc = "returned" =>
              /\ model_name = Invs[Len(Invs)].model
              /\ llm = Invs[Len(Invs)].model
              /\ call.result = ReturnOf(Len(Invs))

\* C6 amended: the entries of the fallback list are invoked in order, one
\* invocation per entry (a model listed twice is invoked twice), with the
\* same messages, up to the first success, unless the first error is also
\* transient and the retry succeeded (then no fallback is invoked and the
\* active model stays).
C6_FallbackChain ==
    /\ (CallFinished /\ FirstForbidden /\ fallback_models # <<>> /\ ~RetrySucceeded) =>
          /\ Cardinality(ViaFallback) >= 1
          /\ \A k \in DOMAIN FallbackRun :
                /\ FallbackRun[k].via = "fallback_llm"
                /\ FallbackRun[k].model = fallback_models[k]
                /\ FallbackRun[k].messages = Invs[1].messages
                /\ FallbackRun[k].out.ok <=> (k = Len(FallbackRun) /\ call.pc = "returned")
          /\ call.pc = "raised" => Len(FallbackRun) = Len(fallback_models)
          /\ call.pc = "returned" =>
                /\ model_name = Invs[Len(Invs)].model
                /\ llm = Invs[Len(Invs)].model
                /\ call.result = ReturnOf(Len(Invs))
    /\ (CallFinished /\ RetrySucceeded) =>
          /\ ViaFallback = {}
          /\ model_name = call.model_at_start

C6_Witness ==
    /\ call.pc = "returned"
    /\ FirstForbidden
    /\ Len(fallback_models) = 2
    /\ Cardinality(ViaFallback) = 2
    /\ model_name = fallback_models[2]
    /\ call.result = ReturnOf(Len(Invs))

C8_AsStated ==
    (call.pc = "raised" /\ FirstForbidden /\ fallback_models # <<>> /\ AllFallbacksFailed) =>
        call.result.error = ApiError(Invs[1].out.msg, 1)

\* C8 amended: the error raised is the one of the last fallback attempted.
C8_LastFallbackError ==
    (call.pc = "raised" /\ FirstForbidden /\ fallback_models # <<>>) =>
        /\ AllFallbacksFailed
        /\ Invs[Len(Invs)].via = "fallback_llm"
        /\ call.result.error = ApiError(Invs[Len(Invs)].out.msg, Len(Invs))
        /\ call.result.kind = "raise"

C8_Witness ==
    /\ call.pc = "raised"
    /\ Invs[1].out.msg = E_403
    /\ Len(fallback_models) = 2
    /\ AllFallbacksFailed
    /\ Invs[Len(Invs)].out.msg = E_400
    /\ call.result.error = ApiError(E_400, 3)

\* C9: a first error that is neither transient nor access-forbidden is raised
\* as it is after that one invocation: no retry, no fallback, no switch.
C9_OtherErrorPropagates ==
    (FirstFailed /\ Invs[1].out.msg \notin (TransientTexts \cup ForbiddenTexts)) =>
        /\ call.pc = "raised"
        /\ Len(Invs) = 1
        /\ call.result = [kind |-> "raise", content |-> "",
                          error |-> ApiError(Invs[1].out.msg, 1)]
        /\ model_name = call.model_at_start
        /\ llm = call.model_at_start

C9_Witness ==
    /\ call.pc = "raised"
    /\ Len(Invs) = 1
    /\ Invs[1].out.msg = E_400
    /\ fallback_models # <<>>
    /\ call.result.error = ApiError(E_400, 1)

----------------------------------------------------------------------------
(* Claims about MemoryStore appends (SpecAppend). *)

\* The add_memory_entry calls of a session that have committed and have not
\* returned yet.
Unreturned(s) ==
    {t \in Tasks : /\ tx[t].pc = "close"
                   /\ tx[t].call.op = "add_memory_entry"
                   /\ tx[t].call.ok
                   /\ tx[t].call.session_id = s}

\* C10 as the specification states it: for every session the summary's
\* total_messages is the number of add_memory_entry calls for it that
\* returned True, and so is what a get_session_summary call returns, counted
\* when its first SELECT ran.
C10_AsStated ==
    /\ \A s \in SessionIds :
          \A summary \in GetSessionSummary(s) : summary.total_messages = appended_ok[s]
    /\ (summary_call.pc = "returned" /\ summary_call.summary # NoSummary) =>
          summary_call.summary.total_messages = summary_call.ok_at_select

\* C10, amended: for every session total_messages is the number of the
\* session's committed rows, a row and its session update becoming visible
\* together or not at all; that is the number of add_memory_entry calls that
\* returned True plus those that have committed and not returned yet, so it
\* is the number of calls that returned True whenever no append is between
\* its commit and its return.  A get_session_summary call returns the number
\* as of its first SELECT (or {} when it failed).
C10_TotalMessagesCountsAppends ==
    /\ \A s \in SessionIds :
          /\ \A summary \in GetSessionSummary(s) :
                summary.total_messages = CountEntries(db, s)
          /\ CountEntries(db, s) = appended_ok[s] + Cardinality(Unreturned(s))
          /\ db.sessions[s].present <=> CountEntries(db, s) > 0
          /\ (\A t \in Tasks : tx[t].pc = "idle") =>
                \A summary \in GetSessionSummary(s) :
                    summary.total_messages = appended_ok[s]
    /\ (summary_call.pc = "returned" /\ summary_call.summary # NoSummary) =>
          /\ summary_call.summary.total_messages =
                 summary_call.ok_at_select + summary_call.unreturned_at_select
          /\ summary_call.summary.total_messages
                 <= appended_ok[summary_call.session_id]
                       + Cardinality(Unreturned(summary_call.session_id))

\* C10 witness: three appends were called and have returned, two of them
\* True for the first session; the summary of that session, whose first
\* SELECT ran while the second of them had committed and not returned, has
\* counted both.
C10_Witness ==
    /\ appends_started = 3
    /\ \A t \in Tasks : tx[t].pc = "idle"
    /\ appended_ok["s1"] = 2
    /\ appended_ok["s2"] = 0
    /\ summary_call.pc = "returned"
    /\ summary_call.session_id = "s1"
    /\ summary_call.ok_at_select = 1
    /\ summary_call.unreturned_at_select = 1
    /\ summary_call.summary.total_messages = 2
    /\ summary_call.summary.created_at < summary_call.summary.last_updated
    /\ \A summary \in GetSessionSummary("s1") : summary.total_messages = 2

----------------------------------------------------------------------------
(* Claims about the MemoryStore's methods (SpecStore) *)

Range(q) == {q[i] : i \in DOMAIN q}

\* The snapshots the store holds for a pair.
SnapshotsOf(session_id, agent_role) ==
    {i \in DOMAIN db.agent_states :
        /\ db.agent_states[i].session_id = session_id
        /\ db.agent_states[i].agent_role = agent_role}

\* C11 as the specification states it: the store holds at most one snapshot
\* per (session_id, agent_role); a save replaces the pair's prior snapshot.
C11_AsStated ==
    \A s \in SessionIds, r \in Roles : Cardinality(SnapshotsOf(s, r)) <= 1

\* An add_memory_entry returned True, no other call has returned since, and
\* the SELECT of a get_memory_entries of the same session (min_importance 0)
\* runs.
AddThenGet(t) ==
    /\ last_op.op = "add_memory_entry"
    /\ last_op.ok
    /\ tx[t].pc = "select"
    /\ tx'[t].pc = "fetch"
    /\ tx[t].call.op = "get_memory_entries"
    /\ tx[t].call.session_id = last_op.session_id

\* The fetch of a get_memory_entries is over: the rows were handed over, or
\* the fetch raised.
GetFetched(t) ==
    /\ tx[t].pc = "fetch"
    /\ tx[t].call.op = "get_memory_entries"
    /\ tx'[t].pc = "close"

\* A get_memory_entries returns.
GetReturns(t) ==
    /\ tx[t].pc = "close"
    /\ tx[t].call.op = "get_memory_entries"
    /\ tx'[t].pc = "idle"

\* C12 as the specification states it: the entries read back (default
\* limit) hold an entry equal to the one written in all seven fields, and
\* they are what the call returns.
C12_AsStated ==
    [][\A t \in Tasks :
          /\ (AddThenGet(t) /\ tx[t].call.limit = DefaultLimit)
                => last_op.entry \in Range(tx'[t].call.entries)
          /\ GetFetched(t) => tx'[t].call.entries = tx[t].call.entries
          /\ GetReturns(t) => last_op'.entries = tx[t].call.entries]_vars

\* The rows of the session, other than the newest row, that the query may
\* list before a row of timestamp t.
NotOlder(session_id, t) ==
    {i \in DOMAIN db.memory_entries :
        /\ i < Len(db.memory_entries)
        /\ db.memory_entries[i].session_id = session_id
        /\ db.memory_entries[i].importance_score >= 0
        /\ db.memory_entries[i].timestamp >= t}

\* C12, amended: an entry written with importance_score >= 0 is read back,
\* equal in session_id, agent_role, message_type, content, timestamp and
\* importance_score and with the metadata json.loads(json.dumps(metadata))
\* gives, whenever fewer than limit other entries of the session (importance
\* >= 0) carry a timestamp that is not older than the entry's; the call
\* returns the entries read unless it fails, and then it returns [].
C12_RoundTrip ==
    [][\A t \in Tasks :
          /\ (/\ AddThenGet(t)
              /\ last_op.entry.importance_score >= 0
              /\ Cardinality(NotOlder(last_op.session_id, last_op.entry.timestamp))
                    < tx[t].call.limit)
                => [last_op.entry EXCEPT
                       !.metadata = IF @ = MD_TUPLE THEN MD_LIST ELSE @]
                      \in Range(tx'[t].call.entries)
          /\ GetFetched(t) =>
                tx'[t].call.entries =
                    IF tx'[t].call.ok THEN tx[t].call.entries ELSE <<>>
          /\ GetReturns(t) => last_op'.entries = tx[t].call.entries]_vars

\* C12 witness: a read with the default limit that returned two entries, one
\* of them written with a tuple in its metadata by the append that returned
\* just before the read's SELECT.
C12_Witness ==
    /\ last_op.op = "get_memory_entries"
    /\ last_op.ok
    /\ last_op.limit = DefaultLimit
    /\ Len(last_op.entries) = 2
    /\ \E i \in DOMAIN last_op.entries : last_op.entries[i].metadata = MD_LIST
    /\ db.memory_entries[Len(db.memory_entries)].metadata = JsonDumps(MD_TUPLE)

\* The place of an entry in the order of the appends: the place of its row
\* in the table (the contents tell the entries apart).
AppendNo(entry) ==
    CHOOSE i \in DOMAIN db.memory_entries : db.memory_entries[i].content = entry.content

NewestAppendFirst(q) ==
    \A i, j \in DOMAIN q : i < j => AppendNo(q[i]) > AppendNo(q[j])

\* C13 as the specification states it: get_memory_entries and the
\* recent_messages of get_session_summary list the entry appended later
\* before the entry appended earlier, whatever timestamps the entries carry.
C13_AsStated ==
    /\ (last_op.op = "get_memory_entries") => NewestAppendFirst(last_op.entries)
    /\ (summary_call.pc = "returned")
          => NewestAppendFirst(summary_call.summary.recent_messages)

\* C15 as the specification states it: an operation for one session never
\* interferes with a call for another session.  No call fails (and returns
\* False, [] or None in place of its result) with "database is locked" while
\* the lock its statement waited for is held by a call that works for a
\* different session.
C15_AsStated ==
    [][\A t \in Tasks :
          (tx[t].call.error = "" /\ tx'[t].call.error = E_LOCKED)
              => Blockers(t) \subseteq {tx[t].call.session_id}]_vars

----------------------------------------------------------------------------
(* Claims about run_workflow (SpecWF) *)

Done == wf_stage = "done"
ProcessEvents == SelectSeq(trace, LAMBDA ev : ev.step = "process")
NodesVisited == [i \in DOMAIN ProcessEvents |-> ProcessEvents[i].node]
ProcessRaised == \E i \in DOMAIN trace : trace[i].step = "process" /\ trace[i].info # <<>>
PersistFailed == \E i \in DOMAIN trace : trace[i].step = "persist" /\ trace[i].info # "ok"
LastEvent == trace[Len(trace)]

\* The texts of the exceptions that occurred while the graph ran.
ExceptionsRaised ==
    {trace[i].info : i \in {j \in DOMAIN trace :
                               trace[j].step = "process" /\ trace[j].info # <<>>}}
        \cup (IF PersistFailed THEN {E_STORE} ELSE {})

NodeSequences ==
    {<<"receptionist", "problem_analyst">>,
     <<"receptionist", "problem_analyst", "solution_expert">>,
     <<"receptionist", "solution_expert">>}

IsPrefix(p, q) == Len(p) <= Len(q) /\ \A i \in DOMAIN p : p[i] = q[i]

\* C1 as the specification states it: whenever an exception occurred while
\* the graph ran, in an agent node or in a persist step, the returned state
\* holds the text of that error under metadata["error"].
C1_AsStated ==
    (Done /\ ExceptionsRaised # {}) =>
        /\ result.returned
        /\ result.state.metadata.error \in ExceptionsRaised

\* C1, amended: run_workflow always returns.  When an agent's process raised,
\* it returns the caller's state with the error text under
\* metadata["error"]; an exception inside a persist step is caught there and
\* leaves no error in the returned state.
C1_ErrorReturned ==
    /\ Done <=> result.returned
    /\ Done =>
          IF ProcessRaised
          THEN /\ LastEvent.step = "process"
               /\ result.state = initial_state
               /\ initial_state = [CreateInitialState(Q_CHARGED) EXCEPT
                                      !.metadata.error = LastEvent.info]
          ELSE result.state.metadata.error = <<>>

\* C1 witness: the solution expert's validation call raised after a persist
\* step had failed; the returned state carries the text of the agent's error.
C1_Witness ==
    /\ Done
    /\ PersistFailed
    /\ LastEvent = Event("process", "solution_expert", E_400)
    /\ state.solution.present
    /\ result.returned
    /\ result.state.metadata.error = E_400

\* C2: a run executes receptionist, problem_analyst; or receptionist,
\* problem_analyst, solution_expert; or receptionist, solution_expert.  A run
\* cut short by an error has executed the beginning of one of them.
C2_NodeSequences ==
    /\ \E q \in NodeSequences : IsPrefix(NodesVisited, q)
    /\ (Done /\ ~ProcessRaised) => NodesVisited \in NodeSequences

\* C2 witness: a finished run that went from the receptionist straight to
\* the solution expert.
C2_Witness ==
    /\ Done
    /\ ~ProcessRaised
    /\ NodesVisited = <<"receptionist", "solution_expert">>
    /\ result.state.solution.present

\* C3 as the specification states it: the analysis node routes to the end
\* only if a solution is present in the state.
C3_AsStated ==
    (trace # <<>> /\ LastEvent = Event("route", "problem_analyst", "end"))
        => state.solution.present

\* C4 as the specification states it: every run that finishes without an
\* error returns a state with an analysis_result and a solution.
C4_AsStated ==
    (Done /\ ~ProcessRaised) =>
        /\ result.state.analysis_result.present
        /\ result.state.solution.present

\* The steps of the run that are not persist steps: the agents that ran,
\* what each raised, and the edges followed.
NodeSteps == SelectSeq(trace, LAMBDA ev : ev.step # "persist")

\* What a run with a working store does after the same agent replies: the
\* edge the graph follows from a node is the one its routing function gives
\* for the state the agent returned.
EdgeOf(node, st) ==
    CASE node = "receptionist" -> RouteFromReceptionist(st)
      [] node = "problem_analyst" -> RouteFromProblemAnalyst(st)
      [] OTHER -> "end"

\* A step of a persist: one store call of _save_state_to_memory, or the
\* exception in its body that ends it.
IsPersistStep == wf_stage \in {"persist_in", "persist_out"} /\ save_call' # save_call

\* The step with which a persist returns: the run's record grows by a
\* persist event.
PersistReturns ==
    /\ Len(trace') = Len(trace) + 1
    /\ trace'[Len(trace')].step = "persist"

\* The agent of every visited node ran and the edge taken after it is the
\* one of the state the agent returned; a run that finished without an agent
\* error returns that state, with no error in its metadata.
RunAsWithWorkingStore ==
    /\ \A i \in DOMAIN NodeSteps :
          NodeSteps[i].step = (IF i % 2 = 1 THEN "process" ELSE "route")
    /\ (trace # <<>> /\ LastEvent.step = "route")
          => LastEvent.info = EdgeOf(LastEvent.node, state)
    /\ (Done /\ ~ProcessRaised) =>
          /\ result.state = state
          /\ result.state.metadata.error = <<>>

\* C14: a failing store never aborts or alters a run.  Every store call of
\* a persist, whatever the store did, leaves the state, the node and the
\* result as they were, and the persist returns to the step a working store
\* leads to; the nodes visited and the state returned are those the agents'
\* replies alone determine, and no error is recorded in the metadata.
C14_StoreFailuresHarmless ==
    [][/\ IsPersistStep =>
             /\ state' = state
             /\ wf_node' = wf_node
             /\ result' = result
             /\ wf_stage' = (IF ~PersistReturns THEN wf_stage
                             ELSE IF wf_stage = "persist_in" THEN "process"
                             ELSE "route")
       /\ RunAsWithWorkingStore']_vars

\* C14 witness: a run that finished through all three nodes although a
\* store call failed in the middle of a persist, between two that worked.
C14_Witness ==
    /\ Done
    /\ PersistFailed
    /\ StoreFailures = 1
    /\ Len(db.memory_entries) = 17
    /\ Len(db.agent_states) = 6
    /\ ~ProcessRaised
    /\ NodesVisited = <<"receptionist", "problem_analyst", "solution_expert">>
    /\ result.state.solution.present
    /\ result.state.metadata.error = <<>>


----------------------------------------------------------------------------
(* Claims about the RoutingEngine (SpecRoute) *)

\* C20: RoutingEngine() returns an engine, with its three rule tables
\* initialised and an empty decision history, under the AgentRole that
\* models/state.py defines.
C20_AsStated ==
    (engine.status # "none")
        => /\ engine.status = "built"
           /\ DOMAIN engine.routing_rules =
                 {"severity_based", "category_based", "confidence_based"}
           /\ engine.decision_history = <<>>

\* C19: once RoutingEngine() was called there is an engine, and each call of
\* its make_routing_decision returns its decision and makes the decision
\* history one record longer.
C19_AsStated ==
    (engine.status # "none")
        => /\ engine.status = "built"
           /\ \A current_agent \in Roles :
                 LET made == MakeRoutingDecision(engine, state, current_agent)
                 IN /\ made.returned
                    /\ Len(made.engine.decision_history)
                          = Len(engine.decision_history) + 1

\* An escalation keyword occurs in one of the last three messages.
EscalationInLast3(st) ==
    \E i \in DOMAIN LastN(st.conversation_history, 3) :
        ContainsAny(LowerText(LastN(st.conversation_history, 3)[i].content),
                    EscalationKeywords)

\* C16: for a state with an escalation keyword in one of its last three
\* messages, once RoutingEngine() was called there is an engine whose
\* make_routing_decision returns escalate with the expert as target, whatever
\* the analysis and the current agent are, and also when there is no
\* analysis.
C16_AsStated ==
    (engine.status # "none" /\ EscalationInLast3(state))
        => /\ engine.status = "built"
           /\ \A current_agent \in Roles :
                 LET made == MakeRoutingDecision(engine, state, current_agent)
                 IN /\ made.returned
                    /\ made.decision.decision = "escalate"
                    /\ made.decision.target = "solution_expert"

\* The agent rule 4 prefers for a category, "" when it prefers none.
PreferredAgent(category) ==
    CASE category = <<"technical">> -> "solution_expert"
      [] category = <<"billing">> -> "problem_analyst"
      [] category = <<"account">> -> "problem_analyst"
      [] category = <<"general">> -> "receptionist"
      [] OTHER -> ""

\* Rules 3 to 6 in their order, for an analysis and a current agent.
RulesThreeToSix(analysis, current_agent) ==
    IF analysis.severity \in {"high", "critical"}
    THEN [decision |-> "handoff_to_expert", target |-> "solution_expert"]
    ELSE IF PreferredAgent(analysis.category) \notin {"", current_agent}
    THEN [decision |->
              IF PreferredAgent(analysis.category) = "solution_expert"
              THEN "handoff_to_expert" ELSE "handoff_to_analyst",
          target |-> PreferredAgent(analysis.category)]
    ELSE IF analysis.confidence_score < 6
    THEN [decision |-> "handoff_to_expert", target |-> "solution_expert"]
    ELSE [decision |-> "continue_current", target |-> current_agent]

\* C17: for an analysed state with no escalation and no resolution keyword
\* in its history, once RoutingEngine() was called there is an engine whose
\* make_routing_decision gives, for every current agent, the decision of
\* rules 3 to 6 in their order (the category rule being compared where it
\* names the analyst or the expert).
C17_AsStated ==
    (/\ engine.status # "none"
     /\ state.analysis_result.present
     /\ ~AnalyzeConversationPatterns(state.conversation_history).escalation_detected
     /\ ~AnalyzeConversationPatterns(state.conversation_history).resolution_detected
     /\ PreferredAgent(state.analysis_result.category) # "receptionist")
        => /\ engine.status = "built"
           /\ \A current_agent \in Roles :
                 LET made == MakeRoutingDecision(engine, state, current_agent)
                 IN /\ made.decision.decision =
                          RulesThreeToSix(state.analysis_result, current_agent).decision
                    /\ made.decision.target =
                          RulesThreeToSix(state.analysis_result, current_agent).target

\* C18: escalation is decided from the last three messages: when none of
\* them holds an escalation keyword, _analyze_conversation_patterns detects
\* no escalation, whatever the older messages hold.
C18_AsStated ==
    (routing.analyzed /\ ~EscalationInLast3(state))
        => ~routing.escalation_detected

----------------------------------------------------------------------------
(* Further claims about run_workflow (SpecWF) *)

\* C21: the agent_path reported for a run that ended without an exception is
\* the list of the agents whose nodes processed the state, in visiting order.
C21_AsStated ==
    (Done /\ ~ProcessRaised)
        => ExtractAgentPath(result.state.conversation_history) = NodesVisited

\* C22: when the problem analyst's step has returned an analysis of severity
\* high or critical, the edge taken from the analysis node leads to the
\* solution_expert node, and the run does not return there.
C22_HighSeverityToExpert ==
    [][(/\ wf_node = "problem_analyst"
        /\ wf_stage = "route"
        /\ wf_stage' # "route"
        /\ state.analysis_result.severity \in {<<"high">>, <<"critical">>})
          => (wf_node' = "solution_expert" /\ result' = result)]_vars

C22_Witness ==
    /\ wf_node = "solution_expert"
    /\ wf_stage = "persist_in"
    /\ LastEvent = Event("route", "problem_analyst", "solution_expert")
    /\ state.analysis_result.by = "problem_analyst"
    /\ state.analysis_result.severity = <<"critical">>
    /\ state.analysis_result.confidence_score = 9

\* C23: when a step raises after the receptionist's step completed, the state
\* run_workflow returns holds the error and what the receptionist's step
\* produced: its analysis, its notes and its handoff message.
C23_AsStated ==
    (Done /\ ProcessRaised /\ Len(ProcessEvents) >= 2)
        => /\ result.returned
           /\ result.state.metadata.error # <<>>
           /\ result.state.analysis_result.present
           /\ result.state.metadata.receptionist_notes
           /\ Len(result.state.conversation_history) >= 2

----------------------------------------------------------------------------
(* Further claims about call_llm (SpecLLM) *)

\* C24 as stated: the agent's active model changes at most once.  The agent
\* starts on the primary model, so a change away from any other model is a
\* second change at least.
C24_AsStated ==
    [][(model_name' # model_name \/ llm' # llm)
          => (model_name = PrimaryModel /\ llm = PrimaryModel)]_vars

----------------------------------------------------------------------------
(* Claims about the session summary under clean-ups (SpecCleanup) *)

RECURSIVE SumOfCounts(_)
SumOfCounts(stats) ==
    IF stats = {} THEN 0
    ELSE LET p == CHOOSE q \in stats : TRUE
         IN p[2] + SumOfCounts(stats \ {p})

\* C25: the total_messages of a session summary is the sum of the per-agent
\* message counts of the same summary, after any appends and clean-ups: of
\* the summary a call returned with no write between its SELECTs and none
\* since.
C25_AsStated ==
    (/\ summary_call.pc = "returned"
     /\ summary_call.summary \in GetSessionSummary(summary_call.session_id))
        => summary_call.summary.total_messages
              = SumOfCounts(summary_call.summary.agent_stats)

----------------------------------------------------------------------------
(* Claims about the steps of a run (SpecWF) *)

\* C26: in a run the solution of the state is set by at most one step: a
\* step changes state.solution only when there is none yet.
C26_OneSolutionPerRun ==
    [][(state'.solution # state.solution) => ~state.solution.present]_vars

C26_Witness ==
    /\ Done
    /\ NodesVisited = <<"receptionist", "problem_analyst">>
    /\ result.state.solution.present
    /\ result.state.solution.by = "problem_analyst"

IsEvent(i, step, node) ==
    i \in DOMAIN trace /\ trace[i].step = step /\ trace[i].node = node

\* C27 as stated: every process of a finished run has one persist of its
\* node's role before it, one after it, and then the node's routing decision.
C27_AsStated ==
    Done => \A i \in DOMAIN trace :
               (trace[i].step = "process")
                   => /\ IsEvent(i - 1, "persist", trace[i].node)
                      /\ IsEvent(i + 1, "persist", trace[i].node)
                      /\ IsEvent(i + 2, "route", trace[i].node)

\* C27 amended: the events of a run come in blocks of persist, process,
\* persist, route, all of one node, the persist calls being made whether or
\* not the store works; a process that raises has only the persist before it
\* and is the last event of the run.
C27_StepProtocol ==
    /\ \A i \in DOMAIN trace :
          /\ (trace[i].step = "process")
                => /\ IsEvent(i - 1, "persist", trace[i].node)
                   /\ (i = 2 \/ IsEvent(i - 2, "route", trace[i - 2].node))
                   /\ IF trace[i].info = <<>>
                      THEN /\ (i < Len(trace)) => IsEvent(i + 1, "persist", trace[i].node)
                           /\ (i + 1 < Len(trace)) => IsEvent(i + 2, "route", trace[i].node)
                      ELSE i = Len(trace) /\ Done
          /\ (trace[i].step = "route")
                => /\ IsEvent(i - 1, "persist", trace[i].node)
                   /\ IsEvent(i - 2, "process", trace[i].node)
                   /\ trace[i - 2].info = <<>>
                   /\ (i < Len(trace)) => IsEvent(i + 1, "persist", trace[i].info)
          /\ (trace[i].step = "persist")
                => \/ i = 1 /\ trace[i].node = "receptionist"
                   \/ IsEvent(i - 1, "process", trace[i].node)
                   \/ i > 1 /\ trace[i - 1].step = "route"
                            /\ trace[i - 1].info = trace[i].node
    /\ (Done /\ ~ProcessRaised) => (LastEvent.step = "route" /\ LastEvent.info = "end")
    /\ (wf_stage = "route") => LastEvent.step = "persist"

C27_Witness ==
    /\ Done
    /\ ~ProcessRaised
    /\ PersistFailed
    /\ NodesVisited = <<"receptionist", "problem_analyst", "solution_expert">>
    /\ Len(trace) = 12

\* C28: the conversation history of a run only grows by appends: after every
\* step the history held before it is a prefix of the history held after it.
C28_HistoryAppendOnly ==
    [][IsPrefix(state.conversation_history, state'.conversation_history)]_vars

C28_Witness ==
    /\ Done
    /\ ~ProcessRaised
    /\ Len(result.state.conversation_history) = 5
    /\ result.state.conversation_history[1] = initial_state.conversation_history[1]
    /\ result.state.conversation_history[5].sender = "solution_expert"

\* The rows a step added to memory_entries.
NewEntries ==
    SubSeq(db'.memory_entries, Len(db.memory_entries) + 1, Len(db'.memory_entries))

\* The last k rows of memory_entries after the step.
LastEntries(k) ==
    SubSeq(db'.memory_entries, Len(db'.memory_entries) - k + 1, Len(db'.memory_entries))

\* C29: a persist with a working store adds one memory entry for every
\* message of the history it is given, the old messages included, each with
\* the message's content and the role of the persisting node.  Every store
\* call of a persist adds at most one entry, that of the message it is at,
\* and the session's total_messages grows with it; when a persist whose
\* calls all worked returns, the last k entries are those of the k messages
\* of its history, in order.
C29_PersistReappendsHistory ==
    [][IsPersistStep
          => /\ IsPrefix(db.memory_entries, db'.memory_entries)
             /\ Len(NewEntries) <= 1
             /\ \A i \in DOMAIN NewEntries :
                   /\ save_call.idx <= Len(state.conversation_history)
                   /\ NewEntries[i].agent_role = wf_node
                   /\ NewEntries[i].session_id = WorkflowSession
                   /\ NewEntries[i].content =
                         state.conversation_history[save_call.idx].content
             /\ db'.sessions[WorkflowSession].total_messages =
                   db.sessions[WorkflowSession].total_messages + Len(NewEntries)
             /\ (PersistReturns /\ trace'[Len(trace')].info = "ok")
                   => /\ Len(db'.memory_entries) >= Len(state.conversation_history)
                      /\ \A i \in DOMAIN state.conversation_history :
                            /\ LastEntries(Len(state.conversation_history))[i].agent_role
                                  = wf_node
                            /\ LastEntries(Len(state.conversation_history))[i].content
                                  = state.conversation_history[i].content
                            /\ LastEntries(Len(state.conversation_history))[i].metadata
                                  = JsonDumps(state.conversation_history[i].metadata)]_vars

\* A run through the three nodes with a working store: five distinct
\* messages, 1 + 2 + 2 + 4 + 4 + 5 entries.
C29_Witness ==
    /\ Done
    /\ ~ProcessRaised
    /\ ~PersistFailed
    /\ NodesVisited = <<"receptionist", "problem_analyst", "solution_expert">>
    /\ Len(result.state.conversation_history) = 5
    /\ db.sessions[WorkflowSession].total_messages = 18
    /\ Len(db.memory_entries) = 18

----------------------------------------------------------------------------
(* Claims about the first error of a call_llm (SpecLLM) *)

FirstError == ApiError(Invs[1].out.msg, 1)
RetryFailed == RetryDone /\ ~Invs[2].out.ok

\* C30 as stated: when the first error is transient and the retry fails too,
\* no fallback is invoked and the error raised is the first one; fallbacks
\* are invoked only after an access-forbidden first error, each at most once.
C30_AsStated ==
    CallFinished =>
        /\ (FirstTransient /\ RetryFailed)
              => /\ ViaFallback = {}
                 /\ call.pc = "raised"
                 /\ call.result.error = FirstError
        /\ (ViaFallback # {}) => FirstForbidden
        /\ \A k \in DOMAIN FallbackRun : FallbackRun[k].model = fallback_models[k]

\* C30 amended: the first error alone decides.  If it is transient and not
\* access-forbidden and the retry fails, whatever the retry's error is, the
\* call invokes nothing more and raises the first error.  Fallbacks are
\* invoked only when the first error is access-forbidden and the retry, if the
\* error is transient too, has failed; then each position of the list is
\* invoked at most once.  A first error that is both, with no fallback
\* configured, ends in the RuntimeError, not in the first error.
C30_FirstErrorDecides ==
    CallFinished =>
        /\ (FirstTransient /\ ~FirstForbidden /\ RetryFailed)
              => /\ Len(Invs) = 2
                 /\ call.pc = "raised"
                 /\ call.result.error = FirstError
        /\ (ViaFallback # {})
              => /\ FirstForbidden
                 /\ fallback_models # <<>>
                 /\ FirstTransient => RetryFailed
        /\ Len(FallbackRun) <= Len(fallback_models)
        /\ \A k \in DOMAIN FallbackRun :
              /\ FallbackRun[k].model = fallback_models[k]
              /\ (k < Len(FallbackRun)) => ~FallbackRun[k].out.ok
        /\ (FirstTransient /\ FirstForbidden /\ RetryFailed)
              => IF fallback_models # <<>>
                 THEN ViaFallback # {}
                 ELSE /\ call.pc = "raised"
                      /\ call.result.error.type = "RuntimeError"

C30_Witness ==
    /\ call.pc = "raised"
    /\ fallback_models # <<>>
    /\ Len(Invs) = 2
    /\ Invs[1].out.msg = E_TIMEOUT
    /\ Invs[2].out.msg = E_403
    /\ call.result.error = ApiError(E_TIMEOUT, 1)

====
